---- MODULE Spec2Model ----
(***************************************************************************)
(* ResidualHeapVisitor (src/src/serializer/ResidualHeapVisitor.js): the    *)
(* reachability and closure-capture pass over a residual heap.             *)
(*                                                                         *)
(* The heap snapshot is an input, drawn in Init from a bounded family of   *)
(* heaps.  The recursion of visitValue and of the handlers it dispatches   *)
(* to is the sequence `stack`: its head is the call that runs next, the    *)
(* frames behind it are the rest of the bodies of the callers.  One action *)
(* per method of the class; a method that calls back into visitValue in    *)
(* the middle of its body continues in a frame with a later `pc`.          *)
(***************************************************************************)
EXTENDS Integers, Sequences, FiniteSets, TLC

VARIABLES
    heap,                 \* the realm: values, environment records, scans
    generator,            \* realm.generator's values, in registration order
    initializedModules,   \* modules.initializedModules' values, in order
    values,               \* this.values
    ignoredProperties,    \* this.ignoredProperties
    globalBindings,       \* this.globalBindings: name -> VisitedBinding
    declarativeEnvironmentRecordsBindings, \* record -> (name -> VisitedBinding)
    functionInfos,        \* this.functionInfos: code -> FunctionInfo
    functionBindings,     \* this.functionBindings: function -> (name -> VisitedBinding)
    bindings,             \* the VisitedBinding objects, by identity
    errors,               \* what logger.logError was called with
    stack,                \* pending calls and continuations
    started,              \* visitRoots was called on this visitor
    aborted,              \* an invariant failed or an Error was thrown
    calls,                \* history: every visitValue call, with its call site
                          \* and whether it found the value unvisited
    pass,                 \* 1 or 2: which visitor over the same snapshot
    firstPass             \* history: the tables the first visitor ended with

vars == <<heap, generator, initializedModules, values, ignoredProperties,
          globalBindings, declarativeEnvironmentRecordsBindings, functionInfos,
          functionBindings, bindings, errors, stack, started, aborted, calls,
          pass, firstPass>>

tables == <<values, ignoredProperties, globalBindings,
            declarativeEnvironmentRecordsBindings, functionInfos,
            functionBindings, bindings>>

----------------------------------------------------------------------------
(* Bounds of the heap family *)

MaxChainLinks == 2
MaxMapEntries == 3
MaxBoundArguments == 1
MaxStack == 24

----------------------------------------------------------------------------
(* Values of the realm *)

Undefined == 0

intrinsics ==
    [ObjectPrototype |-> 1, ArrayPrototype |-> 2, FunctionPrototype |-> 3,
     undefined |-> 4, MapPrototype |-> 5, SetPrototype |-> 6,
     DatePrototype |-> 7, WeakMapPrototype |-> 8]

NumIntrinsics == Cardinality({intrinsics[k] : k \in DOMAIN intrinsics})

\* realm.intrinsics[kind + "Prototype"]
KindPrototype(kind) ==
    CASE kind = "Object" -> intrinsics.ObjectPrototype
      [] kind = "Array" -> intrinsics.ArrayPrototype
      [] kind = "Function" -> intrinsics.FunctionPrototype
      [] kind = "Map" -> intrinsics.MapPrototype
      [] kind = "Set" -> intrinsics.SetPrototype
      [] kind = "Date" -> intrinsics.DatePrototype
      [] kind = "WeakMap" -> intrinsics.WeakMapPrototype
      [] OTHER -> Undefined

NoDescriptor ==
    [defined |-> FALSE, value |-> Undefined, get |-> Undefined, set |-> Undefined,
     writable |-> FALSE, enumerable |-> FALSE, configurable |-> FALSE]

\* a data descriptor
Data(v, w, e, c) ==
    [defined |-> TRUE, value |-> v, get |-> Undefined, set |-> Undefined,
     writable |-> w, enumerable |-> e, configurable |-> c]

\* an accessor descriptor
Accessor(g, s, e, c) ==
    [defined |-> TRUE, value |-> Undefined, get |-> g, set |-> s,
     writable |-> FALSE, enumerable |-> e, configurable |-> c]

Prop(k, d) == [key |-> k, descriptor |-> d]

NoUnknownProperty == [defined |-> FALSE, descriptor |-> NoDescriptor]

PrimitiveValue(ptype, n) ==
    [cls |-> "Primitive", intrinsic |-> FALSE, ptype |-> ptype, num |-> n]

EmptyValue == [cls |-> "Empty", intrinsic |-> FALSE]

SymbolValue == [cls |-> "Symbol", intrinsic |-> FALSE]

UnknownValue == [cls |-> "Unknown", intrinsic |-> FALSE]

AbstractValue(kind, args, hasId) ==
    [cls |-> "Abstract", intrinsic |-> FALSE, akind |-> kind, args |-> args,
     hasIdentifier |-> hasId]

ObjectValue ==
    [cls |-> "Object", intrinsic |-> FALSE, kind |-> "Object",
     properties |-> <<>>, unknownProperty |-> NoUnknownProperty,
     Prototype |-> intrinsics.ObjectPrototype, originalConstructor |-> Undefined,
     symbolsSize |-> 0, extensible |-> TRUE, ParameterMap |-> Undefined,
     DateValue |-> Undefined, ViewedArrayBuffer |-> Undefined,
     hasEntries |-> FALSE, entries |-> <<>>,
     ProxyTarget |-> Undefined, ProxyHandler |-> Undefined,
     hasDefaultLength |-> TRUE, Strict |-> FALSE, FunctionKind |-> "normal",
     BoundTargetFunction |-> Undefined, BoundThis |-> Undefined,
     BoundArguments |-> <<>>, FormalParameters |-> TRUE,
     ECMAScriptCode |-> Undefined, Environment |-> Undefined,
     isResidual |-> FALSE]

IntrinsicObject(kind) ==
    [ObjectValue EXCEPT !.intrinsic = TRUE, !.kind = kind]

IntrinsicValues ==
    [i \in 1..NumIntrinsics |->
        IF i = intrinsics.undefined
        THEN [PrimitiveValue("Undefined", 0) EXCEPT !.intrinsic = TRUE]
        ELSE IntrinsicObject(IF i = intrinsics.FunctionPrototype
                             THEN "Function" ELSE "Object")]

ObjectClasses == {"Object", "Proxy", "Function", "BoundFunction", "NativeFunction"}
FunctionClasses == {"Function", "BoundFunction", "NativeFunction"}

\* v is a Value of the heap h
Val(h, v) == h.vals[v]

IsObjectValue(h, v) == v # Undefined /\ Val(h, v).cls \in ObjectClasses
IsFunctionValue(h, v) == v # Undefined /\ Val(h, v).cls \in FunctionClasses
IsAbstractValue(h, v) == v # Undefined /\ Val(h, v).cls = "Abstract"
IsPrimitiveValue(h, v) == v # Undefined /\ Val(h, v).cls \in {"Primitive", "Symbol"}

\* val.getKind()
getKind(h, v) ==
    IF Val(h, v).cls \in FunctionClasses THEN "Function" ELSE Val(h, v).kind

\* IsArray(realm, val)
IsArray(h, v) == Val(h, v).cls = "Object" /\ Val(h, v).kind = "Array"

isLeaf(h, v) ==
    IF Val(h, v).cls = "Symbol" THEN FALSE
    ELSE IF IsAbstractValue(h, v) /\ Val(h, v).hasIdentifier THEN TRUE
    ELSE IF Val(h, v).intrinsic THEN FALSE
    ELSE IsPrimitiveValue(h, v)

\* the index of key in obj.properties, 0 when the object has no such binding
PropertyIndex(h, obj, key) ==
    LET ps == Val(h, obj).properties
        hits == {i \in 1..Len(ps) : ps[i].key = key}
    IN IF hits = {} THEN 0 ELSE CHOOSE i \in hits : TRUE

getPropertyValue(h, obj, name) ==
    LET i == PropertyIndex(h, obj, name)
    IN IF i = 0 THEN Undefined
       ELSE IF ~Val(h, obj).properties[i].descriptor.defined THEN Undefined
       ELSE Val(h, obj).properties[i].descriptor.value

\* Get(realm, val, "length") of an array: its own length property
GetLength(h, obj) == getPropertyValue(h, obj, "length")

\* a line 80 that forgets the enumerable flag
ArrayLengthIgnoringEnumerable(key, desc) ==
    key = "length" /\ desc.writable /\ ~desc.configurable

\* line 80
ArrayLengthIsDefault(key, desc) ==
    key = "length" /\ desc.writable /\ ~desc.enumerable /\ ~desc.configurable

\* Descriptor classifier.  The logError of line 87 is LengthAccessor below.
canIgnoreProperty(h, val, key, desc) ==
    LET v == Val(h, val)
        constructorRule ==
            key = "constructor" /\ desc.configurable /\ ~desc.enumerable
            /\ desc.writable /\ desc.value = v.originalConstructor
    IN IF IsArray(h, val)
       THEN ArrayLengthIsDefault(key, desc) \/ constructorRule
       ELSE IF IsFunctionValue(h, val)
       THEN IF key = "length"
            THEN ~desc.writable /\ ~desc.enumerable /\ desc.configurable
                 /\ v.hasDefaultLength
            ELSE IF key = "name" THEN TRUE
            ELSE IF key \in {"arguments", "caller"}
                    /\ ~v.Strict /\ desc.writable /\ ~desc.enumerable
                    /\ desc.configurable /\ desc.value # Undefined
                    /\ Val(h, desc.value).cls = "Primitive"
                    /\ Val(h, desc.value).ptype = "Undefined"
                    /\ v.FunctionKind = "normal"
            THEN TRUE
            ELSE IF key = "prototype"
                    /\ ~desc.configurable /\ ~desc.enumerable /\ desc.writable
                    /\ IsObjectValue(h, desc.value)
                    /\ Val(h, desc.value).originalConstructor = val
            THEN TRUE
            ELSE constructorRule
       ELSE IF getKind(h, val) = "RegExp" /\ key = "lastIndex" /\ desc.writable
               /\ ~desc.enumerable /\ ~desc.configurable
       THEN desc.value # Undefined /\ Val(h, desc.value).cls = "Primitive"
            /\ Val(h, desc.value).ptype = "Number" /\ Val(h, desc.value).num = 0
       ELSE constructorRule

\* the condition under which _canIgnoreProperty reports a length accessor
LengthAccessor(h, val, key, desc) ==
    ~IsArray(h, val) /\ IsFunctionValue(h, val) /\ key = "length"
    /\ desc.value = Undefined

\* an isDefaultPrototype that accepts any keys once the flags are right
isDefaultPrototypeWhateverKeys(h, prototype) ==
    LET p == Val(h, prototype)
    IN p.symbolsSize = 0 /\ p.Prototype = intrinsics.ObjectPrototype /\ p.extensible

isDefaultPrototype(h, prototype) ==
    LET p == Val(h, prototype)
    IN IF p.symbolsSize # 0 \/ p.Prototype # intrinsics.ObjectPrototype
          \/ ~p.extensible
       THEN FALSE
       ELSE /\ Len(p.properties) > 0
            /\ \A i \in 1..Len(p.properties) :
                   /\ p.properties[i].key = "constructor"
                   /\ getPropertyValue(h, prototype, "constructor")
                          = p.originalConstructor

----------------------------------------------------------------------------
(* What this class asks of the rest of the realm *)

\* realm.getGlobalLetBinding(key)
getGlobalLetBinding(h, key) ==
    IF key \in DOMAIN h.globalLet THEN h.globalLet[key] ELSE Undefined

\* logger.tryQuery(() => ResolveBinding(realm, name, true, env), undefined, true):
\* res is "undefined" (the query's default), "unresolvable" (a Reference with
\* no base), "global", "declarative", "symbol" (referencedName is no string)
\* or "object" (a base that is neither record kind)
ResolveBinding(h, name, env) == h.resolve[env][name]

\* traverse(..., ClosureRefVisitor, null, state): the names the body refers to
\* outside its own scope, and those of them it assigns to
ClosureRefVisitor(h, code) ==
    [names |-> h.scan[code].names, modified |-> h.scan[code].modified,
     usesArguments |-> FALSE, usesThis |-> FALSE]

----------------------------------------------------------------------------
(* Maps of the visitor *)

EmptyMap == [k \in {} |-> 0]

MapSet(m, k, v) == [x \in (DOMAIN m) \cup {k} |-> IF x = k THEN v ELSE m[x]]

NoVia == [site |-> "", from |-> 0, key |-> "", idx |-> 0]

Via(site, from, key, idx) == [site |-> site, from |-> from, key |-> key, idx |-> idx]

\* a pending call of a method on val; pc is the place in its body, idx the
\* loop counter, key a name argument, vb the local visitedBindings
Frame(op, val, pc, idx, key, vb) ==
    [op |-> op, val |-> val, pc |-> pc, idx |-> idx, key |-> key, vb |-> vb,
     via |-> NoVia]

Call(op, val) == Frame(op, val, 0, 1, "", EmptyMap)

\* this.visitValue(val), called from the place `via`
CallVisitValue(val, via) == [Call("visitValue", val) EXCEPT !.via = via]

Top == stack[1]

Running(op) == stack # <<>> /\ Top.op = op

\* the head call runs; `frames` are the calls its body makes, in order
Continue(frames) ==
    /\ Len(frames) + Len(stack) - 1 <= MaxStack
    /\ stack' = frames \o Tail(stack)

\* invariant(false) / throw: the exception unwinds every pending call
Abort == stack' = <<>> /\ aborted' = TRUE

realm == <<heap, generator, initializedModules, pass, firstPass>>

RECURSIVE Flatten(_)
Flatten(seqs) == IF seqs = <<>> THEN <<>> ELSE seqs[1] \o Flatten(Tail(seqs))

\* <<x>> when c, else nothing
When(c, x) == IF c THEN <<x>> ELSE <<>>

----------------------------------------------------------------------------
(* visitValue, lines 473-496 *)

\* a visitValue that lost the check of line 474
NeverVisited(val) == FALSE

\* this.values.has(val)
AlreadyVisited(val) == val \in values

\* the branch of visitValue's dispatch that val takes
Dispatch(h, val) ==
    IF IsAbstractValue(h, val) THEN "visitAbstractValue"
    ELSE IF Val(h, val).intrinsic THEN "visitValueIntrinsic"
    ELSE IF Val(h, val).cls = "Empty" THEN "empty"
    ELSE IF isLeaf(h, val) THEN "leaf"
    ELSE IF IsArray(h, val) THEN "visitValueArray"
    ELSE IF Val(h, val).cls = "Proxy" THEN "visitValueProxy"
    ELSE IF IsFunctionValue(h, val) THEN "visitValueFunction"
    ELSE IF Val(h, val).cls = "Symbol" THEN "visitValueSymbol"
    ELSE IF IsObjectValue(h, val) THEN "visitValueObject"
    ELSE "invariant"

\* visitValueIntrinsic, visitValueSymbol and the two empty branches do nothing
Terminal == {"visitValueIntrinsic", "empty", "leaf", "visitValueSymbol"}

visitValue ==
    /\ Running("visitValue")
    /\ calls' = calls \cup {[via |-> Top.via, val |-> Top.val,
                             fresh |-> ~AlreadyVisited(Top.val)]}
    /\ IF AlreadyVisited(Top.val)
       THEN /\ Continue(<<>>)
            /\ UNCHANGED <<values, aborted>>
       ELSE /\ values' = values \cup {Top.val}
            /\ IF Dispatch(heap, Top.val) = "invariant"
               THEN Abort
               ELSE /\ Continue(When(Dispatch(heap, Top.val) \notin Terminal,
                                     Call(Dispatch(heap, Top.val), Top.val)))
                    /\ UNCHANGED aborted
    /\ UNCHANGED <<realm, ignoredProperties, globalBindings,
                   declarativeEnvironmentRecordsBindings, functionInfos,
                   functionBindings, bindings, errors, started>>

----------------------------------------------------------------------------
(* visitAbstractValue, lines 466-471 *)

\* a visitAbstractValue that stops at a value isLeaf calls a leaf
visitAbstractValueUnlessLeaf(h, val) ==
    IF isLeaf(h, val) THEN <<>>
    ELSE [i \in 1..Len(Val(h, val).args) |->
             CallVisitValue(Val(h, val).args[i], Via("operand", val, "", i))]

\* lines 469-470
visitAbstractValueCalls(h, val) ==
    [i \in 1..Len(Val(h, val).args) |->
        CallVisitValue(Val(h, val).args[i], Via("operand", val, "", i))]

visitAbstractValue ==
    /\ Running("visitAbstractValue")
    /\ errors' = IF Val(heap, Top.val).akind = "sentinel member expression"
                 THEN errors \cup {<<Top.val, "sentinel member expression">>}
                 ELSE errors
    /\ Continue(visitAbstractValueCalls(heap, Top.val))
    /\ UNCHANGED <<realm, tables, started, aborted, calls>>

----------------------------------------------------------------------------
(* visitValueProxy, lines 461-464 *)

\* a visitValueProxy that forgets the handler
visitValueProxyTargetOnly(h, val) ==
    <<CallVisitValue(Val(h, val).ProxyTarget, Via("proxyTarget", val, "", 0))>>

visitValueProxyCalls(h, val) ==
    <<CallVisitValue(Val(h, val).ProxyTarget, Via("proxyTarget", val, "", 0)),
      CallVisitValue(Val(h, val).ProxyHandler, Via("proxyHandler", val, "", 0))>>

visitValueProxy ==
    /\ Running("visitValueProxy")
    /\ Continue(visitValueProxyCalls(heap, Top.val))
    /\ UNCHANGED <<realm, tables, errors, started, aborted, calls>>

----------------------------------------------------------------------------
(* visitValueArray, lines 242-246 *)

visitValueArrayCalls(h, val) ==
    <<Call("visitObjectProperties", val)>>
    \o When(IsAbstractValue(h, GetLength(h, val)),
            CallVisitValue(GetLength(h, val), Via("arrayLength", val, "", 0)))

visitValueArray ==
    /\ Running("visitValueArray")
    /\ Continue(visitValueArrayCalls(heap, Top.val))
    /\ UNCHANGED <<realm, tables, errors, started, aborted, calls>>

----------------------------------------------------------------------------
(* visitDescriptor, lines 214-218: the descriptor of property idx of val *)

visitDescriptorCalls(h, obj, i) ==
    LET p == Val(h, obj).properties[i]
        desc == p.descriptor
    IN When(desc.value # Undefined,
            CallVisitValue(desc.value, Via("value", obj, p.key, i)))
       \o When(desc.get # Undefined,
               CallVisitValue(desc.get, Via("get", obj, p.key, i)))
       \o When(desc.set # Undefined,
               CallVisitValue(desc.set, Via("set", obj, p.key, i)))

visitDescriptor ==
    /\ Running("visitDescriptor")
    /\ Continue(visitDescriptorCalls(heap, Top.val, Top.idx))
    /\ UNCHANGED <<realm, tables, errors, started, aborted, calls>>

----------------------------------------------------------------------------
(* visitObjectPrototype, lines 171-178 *)

\* a line 175 that compares with the Object prototype whatever the kind
visitObjectPrototypeIgnoringKind(h, obj) ==
    IF Val(h, obj).Prototype = intrinsics.ObjectPrototype THEN <<>>
    ELSE <<CallVisitValue(Val(h, obj).Prototype, Via("prototype", obj, "", 0))>>

visitObjectPrototypeCalls(h, obj) ==
    LET proto == Val(h, obj).Prototype
    IN IF proto = KindPrototype(getKind(h, obj)) THEN <<>>
       ELSE <<CallVisitValue(proto, Via("prototype", obj, "", 0))>>

visitObjectPrototype ==
    /\ Running("visitObjectPrototype")
    /\ Continue(visitObjectPrototypeCalls(heap, Top.val))
    /\ UNCHANGED <<realm, tables, errors, started, aborted, calls>>

----------------------------------------------------------------------------
(* visitConstructorPrototype, lines 180-190 *)

visitConstructorPrototypeCalls(h, func) ==
    LET prototype == getPropertyValue(h, func, "prototype")
    IN IF IsObjectValue(h, prototype)
          /\ Val(h, prototype).originalConstructor = func
          /\ ~isDefaultPrototype(h, prototype)
       THEN <<CallVisitValue(prototype, Via("constructorPrototype", func, "", 0))>>
       ELSE <<>>

visitConstructorPrototype ==
    /\ Running("visitConstructorPrototype")
    /\ Continue(visitConstructorPrototypeCalls(heap, Top.val))
    /\ UNCHANGED <<realm, tables, errors, started, aborted, calls>>

----------------------------------------------------------------------------
(* visitObjectProperties, lines 135-169.  idx is the place in the loop over *)
(* obj.properties; past the last property come lines 156-168.              *)

\* lines 156-168: what follows the loop
visitObjectPropertiesRest(h, obj) ==
    LET unknown == Val(h, obj).unknownProperty
    IN When(unknown.defined /\ unknown.descriptor.defined,
            Call("visitObjectPropertiesWithComputedNames", unknown.descriptor.value))
       \o <<Call("visitObjectPrototype", obj)>>
       \o When(IsFunctionValue(h, obj), Call("visitConstructorPrototype", obj))

\* line 161: invariant(val instanceof AbstractValue)
UnknownPropertyIsAbstract(h, obj) ==
    LET unknown == Val(h, obj).unknownProperty
    IN (unknown.defined /\ unknown.descriptor.defined)
           => IsAbstractValue(h, unknown.descriptor.value)

\* line 150: set.add(key)
AddIgnored(obj, key) ==
    MapSet(ignoredProperties, obj,
           (IF obj \in DOMAIN ignoredProperties THEN ignoredProperties[obj] ELSE {})
               \cup {key})

visitObjectProperties ==
    /\ Running("visitObjectProperties")
    /\ LET obj == Top.val
           i == Top.idx
           ps == Val(heap, obj).properties
           next == Frame("visitObjectProperties", obj, 0, i + 1, "", EmptyMap)
       IN IF i > Len(ps)
          THEN /\ IF UnknownPropertyIsAbstract(heap, obj)
                  THEN Continue(visitObjectPropertiesRest(heap, obj))
                       /\ UNCHANGED aborted
                  ELSE Abort
               /\ UNCHANGED <<ignoredProperties, errors>>
          ELSE IF ~ps[i].descriptor.defined
          THEN /\ Continue(<<next>>)
               /\ UNCHANGED <<ignoredProperties, errors, aborted>>
          ELSE /\ errors' = IF LengthAccessor(heap, obj, ps[i].key, ps[i].descriptor)
                            THEN errors \cup {<<obj, "length accessor">>}
                            ELSE errors
               /\ IF canIgnoreProperty(heap, obj, ps[i].key, ps[i].descriptor)
                  THEN /\ ignoredProperties' = AddIgnored(obj, ps[i].key)
                       /\ Continue(<<next>>)
                  ELSE /\ Continue(<<Frame("visitDescriptor", obj, 0, i, "", EmptyMap),
                                     next>>)
                       /\ UNCHANGED ignoredProperties
               /\ UNCHANGED aborted
    /\ UNCHANGED <<realm, values, globalBindings,
                   declarativeEnvironmentRecordsBindings, functionInfos,
                   functionBindings, bindings, started, calls>>

----------------------------------------------------------------------------
(* visitObjectPropertiesWithComputedNames, lines 192-212 *)

IsTemplate(h, cond) ==
    Val(h, cond).akind = "template for property name condition"

\* the invariants of lines 193-197, up to the first recursive call
ComputedNamesShape(h, absVal) ==
    /\ Len(Val(h, absVal).args) = 3
    /\ IsAbstractValue(h, Val(h, absVal).args[1])
    /\ IsTemplate(h, Val(h, absVal).args[1])
         => /\ Len(Val(h, Val(h, absVal).args[1]).args) >= 1
            /\ IsAbstractValue(h, Val(h, Val(h, absVal).args[1]).args[1])

\* the invariants of lines 207-208
ComputedNamesBranches(h, absVal) ==
    /\ IsAbstractValue(h, Val(h, absVal).args[2])
    /\ IsAbstractValue(h, Val(h, absVal).args[3])

\* a template branch that does not walk the earlier links
visitComputedNamesLastLinkOnly(h, absVal) ==
    LET cond == Val(h, absVal).args[1]
    IN IF IsTemplate(h, cond)
       THEN <<CallVisitValue(Val(h, cond).args[1], Via("computedKey", absVal, "", 0)),
              CallVisitValue(Val(h, absVal).args[2], Via("computedValue", absVal, "", 0))>>
       ELSE <<CallVisitValue(cond, Via("computedCondition", absVal, "", 0)),
              Frame("visitObjectPropertiesWithComputedNames", absVal, 1, 1, "",
                    EmptyMap)>>

\* lines 196-206
visitComputedNamesCalls(h, absVal) ==
    LET cond == Val(h, absVal).args[1]
    IN IF IsTemplate(h, cond)
       THEN LET P == Val(h, cond).args[1]
                V == Val(h, absVal).args[2]
                earlier_props == Val(h, absVal).args[3]
            IN When(IsAbstractValue(h, earlier_props),
                    Call("visitObjectPropertiesWithComputedNames", earlier_props))
               \o <<CallVisitValue(P, Via("computedKey", absVal, "", 0)),
                    CallVisitValue(V, Via("computedValue", absVal, "", 0))>>
       ELSE <<CallVisitValue(cond, Via("computedCondition", absVal, "", 0)),
              Frame("visitObjectPropertiesWithComputedNames", absVal, 1, 1, "",
                    EmptyMap)>>

\* lines 209-210
visitComputedNamesBranchCalls(h, absVal) ==
    <<Call("visitObjectPropertiesWithComputedNames", Val(h, absVal).args[2]),
      Call("visitObjectPropertiesWithComputedNames", Val(h, absVal).args[3])>>

visitObjectPropertiesWithComputedNames ==
    /\ Running("visitObjectPropertiesWithComputedNames")
    /\ IF Top.pc = 0
       THEN IF ComputedNamesShape(heap, Top.val)
            THEN Continue(visitComputedNamesCalls(heap, Top.val))
                 /\ UNCHANGED aborted
            ELSE Abort
       ELSE IF ComputedNamesBranches(heap, Top.val)
            THEN Continue(visitComputedNamesBranchCalls(heap, Top.val))
                 /\ UNCHANGED aborted
            ELSE Abort
    /\ UNCHANGED <<realm, tables, errors, started, calls>>

----------------------------------------------------------------------------
(* visitValueMap, lines 248-269, and visitValueSet, lines 271-289 *)

\* line 265: the entry is visited
MapEntryLive(entry) == ~(entry.Key = Undefined \/ entry.Value = Undefined)

\* a loop that stops at the first entry without a key or a value
visitValueMapUntilCleared(h, val) ==
    LET entries == Val(h, val).entries
        dead == {i \in 1..Len(entries) : ~MapEntryLive(entries[i])}
        n == IF dead = {} THEN Len(entries)
             ELSE (CHOOSE i \in dead : \A j \in dead : i <= j) - 1
    IN Flatten([i \in 1..n |->
           <<CallVisitValue(entries[i].Key, Via("mapKey", val, "", i)),
             CallVisitValue(entries[i].Value, Via("mapValue", val, "", i))>>])

visitValueMapCalls(h, val) ==
    LET entries == Val(h, val).entries
    IN Flatten([i \in 1..Len(entries) |->
           IF MapEntryLive(entries[i])
           THEN <<CallVisitValue(entries[i].Key, Via("mapKey", val, "", i)),
                  CallVisitValue(entries[i].Value, Via("mapValue", val, "", i))>>
           ELSE <<>>])

visitValueMap ==
    /\ Running("visitValueMap")
    /\ IF getKind(heap, Top.val) \in {"Map", "WeakMap"} /\ Val(heap, Top.val).hasEntries
       THEN Continue(visitValueMapCalls(heap, Top.val)) /\ UNCHANGED aborted
       ELSE Abort
    /\ UNCHANGED <<realm, tables, errors, started, calls>>

visitValueSetCalls(h, val) ==
    LET entries == Val(h, val).entries
    IN Flatten([i \in 1..Len(entries) |->
           When(entries[i] # Undefined,
                CallVisitValue(entries[i], Via("setEntry", val, "", i)))])

visitValueSet ==
    /\ Running("visitValueSet")
    /\ IF getKind(heap, Top.val) \in {"Set", "WeakSet"} /\ Val(heap, Top.val).hasEntries
       THEN Continue(visitValueSetCalls(heap, Top.val)) /\ UNCHANGED aborted
       ELSE Abort
    /\ UNCHANGED <<realm, tables, errors, started, calls>>

----------------------------------------------------------------------------
(* visitValueObject, lines 402-456 *)

TypedArrayKinds ==
    {"Float32Array", "Float64Array", "Int8Array", "Int16Array", "Int32Array",
     "Uint8Array", "Uint16Array", "Uint32Array", "Uint8ClampedArray", "DataView"}

\* line 452 reads this.$ParameterMap: a field of the visitor, which has none
thisParameterMap == Undefined

\* lines 408-455, without the two logError calls
visitValueObjectCalls(h, val) ==
    LET v == Val(h, val)
        kind == getKind(h, val)
    IN IF v.originalConstructor # Undefined
       THEN <<CallVisitValue(v.originalConstructor, Via("originalConstructor", val, "", 0))>>
       ELSE IF kind = "Date"
       THEN <<CallVisitValue(v.DateValue, Via("dateValue", val, "", 0))>>
       ELSE IF kind \in TypedArrayKinds
       THEN <<CallVisitValue(v.ViewedArrayBuffer, Via("viewedArrayBuffer", val, "", 0))>>
       ELSE IF kind \in {"Map", "WeakMap"} THEN <<Call("visitValueMap", val)>>
       ELSE IF kind \in {"Set", "WeakSet"} THEN <<Call("visitValueSet", val)>>
       ELSE <<>>

SupportedKinds ==
    {"RegExp", "Number", "String", "Boolean", "ArrayBuffer", "Date", "Map",
     "WeakMap", "Set", "WeakSet", "Object"} \cup TypedArrayKinds

\* lines 449-453: the diagnostics of the default branch
visitValueObjectErrors(h, val) ==
    IF Val(h, val).originalConstructor # Undefined
       \/ getKind(h, val) \in SupportedKinds \ {"Object"}
    THEN {}
    ELSE (IF getKind(h, val) # "Object" THEN {<<val, "kind not supported">>} ELSE {})
         \cup (IF thisParameterMap # Undefined
               THEN {<<val, "arguments object">>} ELSE {})

\* the invariants of lines 424 and 438
InternalSlotPresent(h, val) ==
    LET v == Val(h, val)
    IN v.originalConstructor = Undefined
         => /\ getKind(h, val) = "Date" => v.DateValue # Undefined
            /\ getKind(h, val) \in TypedArrayKinds => v.ViewedArrayBuffer # Undefined

visitValueObject ==
    /\ Running("visitValueObject")
    /\ IF Top.pc = 0
       THEN /\ Continue(<<Call("visitObjectProperties", Top.val),
                          Frame("visitValueObject", Top.val, 1, 1, "", EmptyMap)>>)
            /\ UNCHANGED <<errors, aborted>>
       ELSE IF InternalSlotPresent(heap, Top.val)
            THEN /\ Continue(visitValueObjectCalls(heap, Top.val))
                 /\ errors' = errors \cup visitValueObjectErrors(heap, Top.val)
                 /\ UNCHANGED aborted
            ELSE Abort /\ UNCHANGED errors
    /\ UNCHANGED <<realm, tables, started, calls>>

----------------------------------------------------------------------------
(* visitGlobalBinding, lines 498-508 *)

\* a line 502 that creates the record with the origin of line 232
NewGlobalBindingAsLexical(h, key) ==
    [global |-> FALSE, value |-> getGlobalLetBinding(h, key), modified |-> TRUE,
     declarativeEnvironmentRecord |-> Undefined]

\* line 502: the record a first resolution of a global name creates
NewGlobalBinding(h, key) ==
    [global |-> TRUE, value |-> getGlobalLetBinding(h, key), modified |-> TRUE,
     declarativeEnvironmentRecord |-> Undefined]

visitGlobalBinding ==
    /\ Running("visitGlobalBinding")
    /\ IF Top.key \in DOMAIN globalBindings
       THEN /\ Continue(<<>>)
            /\ UNCHANGED <<globalBindings, bindings>>
       ELSE /\ bindings' = Append(bindings, NewGlobalBinding(heap, Top.key))
            /\ globalBindings' = MapSet(globalBindings, Top.key, Len(bindings) + 1)
            /\ Continue(When(getGlobalLetBinding(heap, Top.key) # Undefined,
                             CallVisitValue(getGlobalLetBinding(heap, Top.key),
                                            Via("globalBinding", 0, Top.key, 0))))
    /\ UNCHANGED <<realm, values, ignoredProperties,
                   declarativeEnvironmentRecordsBindings, functionInfos,
                   functionBindings, errors, started, aborted, calls>>

----------------------------------------------------------------------------
(* visitDeclarativeEnvironmentRecordBinding, lines 220-237: val is r, key n *)

\* line 231
BindingValue(binding) ==
    IF binding.initialized /\ binding.value # Undefined
    THEN binding.value ELSE intrinsics.undefined

\* line 232
NewDeclarativeBinding(h, r, n) ==
    [global |-> FALSE, value |-> BindingValue(h.records[r][n]), modified |-> FALSE,
     declarativeEnvironmentRecord |-> r]

\* lines 221-225 with a map that forgets: every resolution makes a record
VisitedBindingsForgotten(r) == EmptyMap

\* lines 221-225
VisitedBindingsOf(r) ==
    IF r \in DOMAIN declarativeEnvironmentRecordsBindings
    THEN declarativeEnvironmentRecordsBindings[r] ELSE EmptyMap

visitDeclarativeEnvironmentRecordBinding ==
    /\ Running("visitDeclarativeEnvironmentRecordBinding")
    /\ LET r == Top.val
           n == Top.key
       IN IF n \in DOMAIN VisitedBindingsOf(r)
          THEN /\ Continue(<<>>)
               /\ UNCHANGED <<declarativeEnvironmentRecordsBindings, bindings, aborted>>
          ELSE IF heap.records[r][n].deletable
          THEN /\ declarativeEnvironmentRecordsBindings' =
                      MapSet(declarativeEnvironmentRecordsBindings, r, VisitedBindingsOf(r))
               /\ Abort
               /\ UNCHANGED bindings
          ELSE /\ bindings' = Append(bindings, NewDeclarativeBinding(heap, r, n))
               /\ declarativeEnvironmentRecordsBindings' =
                      MapSet(declarativeEnvironmentRecordsBindings, r,
                             MapSet(VisitedBindingsOf(r), n, Len(bindings) + 1))
               /\ Continue(<<CallVisitValue(BindingValue(heap.records[r][n]),
                                            Via("lexicalBinding", r, n, 0))>>)
               /\ UNCHANGED aborted
    /\ UNCHANGED <<realm, values, ignoredProperties, globalBindings, functionInfos,
                   functionBindings, errors, started, calls>>

----------------------------------------------------------------------------
(* visitValueFunction, lines 313-400.  pc 0: line 314; pc 1: lines 316-371;  *)
(* pc 2: the head of the loop of line 372, at name idx; pc 3: lines 395-396. *)

\* a bound branch that visits the target and the bound this only
visitBoundFunctionWithoutArguments(h, val) ==
    <<CallVisitValue(Val(h, val).BoundTargetFunction, Via("boundTarget", val, "", 0)),
      CallVisitValue(Val(h, val).BoundThis, Via("boundThis", val, "", 0))>>

\* lines 317-319
visitBoundFunctionCalls(h, val) ==
    <<CallVisitValue(Val(h, val).BoundTargetFunction, Via("boundTarget", val, "", 0)),
      CallVisitValue(Val(h, val).BoundThis, Via("boundThis", val, "", 0))>>
    \o [i \in 1..Len(Val(h, val).BoundArguments) |->
           CallVisitValue(Val(h, val).BoundArguments[i], Via("boundArgument", val, "", i))]

\* the invariants of lines 327-331
IsPlainFunction(h, val) ==
    /\ Val(h, val).cls = "Function"
    /\ Val(h, val).FormalParameters
    /\ Val(h, val).ECMAScriptCode # Undefined

\* a line 366 that does not look at the names
ResidualWhateverNames(h, val, functionInfo) == Val(h, val).isResidual

\* line 366
ResidualWithFreeNames(h, val, functionInfo) ==
    Val(h, val).isResidual /\ Len(functionInfo.names) # 0

\* lines 378-393 without the test of line 384: a name that is no string is
\* looked up in the record like any other
ResolveCallWhateverName(h, val, innerName) ==
    LET reference == ResolveBinding(h, innerName, Val(h, val).Environment)
    IN IF reference.res = "undefined"
       THEN Frame("visitGlobalBinding", 0, 0, 1, innerName, EmptyMap)
       ELSE IF reference.res = "unresolvable" THEN Frame("abort", 0, 0, 1, "", EmptyMap)
       ELSE IF reference.res = "global"
       THEN Frame("visitGlobalBinding", 0, 0, 1, reference.referencedName, EmptyMap)
       ELSE IF reference.res \in {"declarative", "symbol"}
       THEN Frame("visitDeclarativeEnvironmentRecordBinding", reference.base, 0, 1,
                  reference.referencedName, EmptyMap)
       ELSE Frame("abort", 0, 0, 1, "", EmptyMap)

\* lines 378-393: the call that resolves the name, "abort" when line 381, 385
\* or 392 stops the pass
ResolveCall(h, val, innerName) ==
    LET reference == ResolveBinding(h, innerName, Val(h, val).Environment)
    IN IF reference.res = "undefined"
       THEN Frame("visitGlobalBinding", 0, 0, 1, innerName, EmptyMap)
       ELSE IF reference.res = "unresolvable" THEN Frame("abort", 0, 0, 1, "", EmptyMap)
       ELSE IF reference.res = "symbol" THEN Frame("abort", 0, 0, 1, "", EmptyMap)
       ELSE IF reference.res = "global"
       THEN Frame("visitGlobalBinding", 0, 0, 1, reference.referencedName, EmptyMap)
       ELSE IF reference.res = "declarative"
       THEN Frame("visitDeclarativeEnvironmentRecordBinding", reference.base, 0, 1,
                  reference.referencedName, EmptyMap)
       ELSE Frame("abort", 0, 0, 1, "", EmptyMap)

\* the VisitedBinding the call of ResolveCall returned
ResolvedBinding(h, val, innerName) ==
    LET call == ResolveCall(h, val, innerName)
    IN IF call.op = "visitGlobalBinding" THEN globalBindings[call.key]
       ELSE declarativeEnvironmentRecordsBindings[call.val][call.key]

\* a line 396 that marks whatever the scan found
MarkModifiedAlways(functionInfo, innerName, visitedBinding) ==
    [bindings EXCEPT ![visitedBinding].modified = TRUE]

\* a line 396 that assigns the function's own flag to the shared record
MarkModifiedAssign(functionInfo, innerName, visitedBinding) ==
    [bindings EXCEPT ![visitedBinding].modified =
        bindings[visitedBinding].global \/ innerName \in functionInfo.modified]

\* line 396
MarkModified(functionInfo, innerName, visitedBinding) ==
    IF innerName \in functionInfo.modified
    THEN [bindings EXCEPT ![visitedBinding].modified = TRUE]
    ELSE bindings

visitValueFunction ==
    /\ Running("visitValueFunction")
    /\ LET val == Top.val
           code == Val(heap, val).ECMAScriptCode
           loop(i, vb) == Frame("visitValueFunction", val, 2, i, "", vb)
       IN IF Top.pc = 0
          THEN /\ Continue(<<Call("visitObjectProperties", val),
                             Frame("visitValueFunction", val, 1, 1, "", EmptyMap)>>)
               /\ UNCHANGED <<functionInfos, functionBindings, bindings, errors, aborted>>
          ELSE IF Top.pc = 1 /\ Val(heap, val).cls = "BoundFunction"
          THEN /\ Continue(visitBoundFunctionCalls(heap, val))
               /\ UNCHANGED <<functionInfos, functionBindings, bindings, errors, aborted>>
          ELSE IF Top.pc = 1 /\ Val(heap, val).cls = "NativeFunction"
          THEN /\ Continue(<<>>)
               /\ UNCHANGED <<functionInfos, functionBindings, bindings, errors, aborted>>
          ELSE IF Top.pc = 1 /\ ~IsPlainFunction(heap, val)
          THEN /\ Abort
               /\ UNCHANGED <<functionInfos, functionBindings, bindings, errors>>
          ELSE IF Top.pc = 1 /\ code \in DOMAIN functionInfos
          THEN /\ Continue(<<loop(1, EmptyMap)>>)
               /\ UNCHANGED <<functionInfos, functionBindings, bindings, errors, aborted>>
          ELSE IF Top.pc = 1
          THEN /\ functionInfos' = MapSet(functionInfos, code, ClosureRefVisitor(heap, code))
               /\ errors' = IF ResidualWithFreeNames(heap, val, ClosureRefVisitor(heap, code))
                            THEN errors \cup {<<val, "residual function refers to outer identifiers">>}
                            ELSE errors
               /\ Continue(<<loop(1, EmptyMap)>>)
               /\ UNCHANGED <<functionBindings, bindings, aborted>>
          ELSE IF Top.pc = 2 /\ Top.idx > Len(functionInfos[code].names)
          THEN /\ functionBindings' = MapSet(functionBindings, val, Top.vb)
               /\ Continue(<<>>)
               /\ UNCHANGED <<functionInfos, bindings, errors, aborted>>
          ELSE IF Top.pc = 2
          THEN /\ LET call == ResolveCall(heap, val, functionInfos[code].names[Top.idx])
                  IN IF call.op = "abort"
                     THEN Abort
                     ELSE /\ Continue(<<call, Frame("visitValueFunction", val, 3,
                                                    Top.idx, "", Top.vb)>>)
                          /\ UNCHANGED aborted
               /\ UNCHANGED <<functionInfos, functionBindings, bindings, errors>>
          ELSE /\ LET innerName == functionInfos[code].names[Top.idx]
                      visitedBinding == ResolvedBinding(heap, val, innerName)
                  IN /\ bindings' = MarkModified(functionInfos[code], innerName,
                                                 visitedBinding)
                     /\ Continue(<<loop(Top.idx + 1,
                                        MapSet(Top.vb, innerName, visitedBinding))>>)
               /\ UNCHANGED <<functionInfos, functionBindings, errors, aborted>>
    /\ UNCHANGED <<realm, values, ignoredProperties, globalBindings,
                   declarativeEnvironmentRecordsBindings, started, calls>>

----------------------------------------------------------------------------
(* visitGenerator, lines 510-512, and visitRoots, lines 514-518 *)

\* generator.visit(callback): the callback is called with each value
visitGeneratorCalls(gen) ==
    [i \in 1..Len(gen) |-> CallVisitValue(gen[i], Via("generator", 0, "", i))]

visitGenerator ==
    /\ Running("visitGenerator")
    /\ Continue(visitGeneratorCalls(generator))
    /\ UNCHANGED <<realm, tables, errors, started, aborted, calls>>

visitRootsCalls(h, mods) ==
    When(h.hasGenerator, Call("visitGenerator", 0))
    \o [i \in 1..Len(mods) |-> CallVisitValue(mods[i], Via("module", 0, "", i))]

visitRoots ==
    /\ ~started
    /\ started' = TRUE
    /\ stack' = visitRootsCalls(heap, initializedModules)
    /\ UNCHANGED <<realm, tables, errors, aborted, calls>>

----------------------------------------------------------------------------
(* The result of a pass, with each VisitedBinding read through *)

Deref(m) == [k \in DOMAIN m |-> bindings[m[k]]]

Results ==
    [ended |-> TRUE, aborted |-> aborted, values |-> values,
     ignoredProperties |-> ignoredProperties,
     globalBindings |-> Deref(globalBindings),
     declarativeEnvironmentRecordsBindings |->
         [r \in DOMAIN declarativeEnvironmentRecordsBindings |->
             Deref(declarativeEnvironmentRecordsBindings[r])],
     functionBindings |->
         [f \in DOMAIN functionBindings |-> Deref(functionBindings[f])]]

NoResults ==
    [ended |-> FALSE, aborted |-> FALSE, values |-> {},
     ignoredProperties |-> EmptyMap, globalBindings |-> EmptyMap,
     declarativeEnvironmentRecordsBindings |-> EmptyMap,
     functionBindings |-> EmptyMap]

\* the pass has returned from visitRoots, or was unwound by an exception
Ended == started /\ stack = <<>>

Orders(s) ==
    {t \in [1..Len(s) -> {s[i] : i \in 1..Len(s)}] :
        \A i \in 1..Len(s) : \E j \in 1..Len(s) : t[j] = s[i]}

\* lines 35-48: a second, fresh visitor over the same snapshot, which may be
\* handed the same roots in another order
constructor ==
    /\ pass = 1
    /\ Ended
    /\ pass' = 2
    /\ firstPass' = Results
    /\ generator' \in Orders(generator)
    /\ initializedModules' \in Orders(initializedModules)
    /\ declarativeEnvironmentRecordsBindings' = EmptyMap
    /\ globalBindings' = EmptyMap
    /\ functionInfos' = EmptyMap
    /\ functionBindings' = EmptyMap
    /\ values' = {}
    /\ ignoredProperties' = EmptyMap
    /\ bindings' = <<>>
    /\ errors' = {}
    /\ calls' = {}
    /\ stack' = <<>>
    /\ started' = FALSE
    /\ aborted' = FALSE
    /\ UNCHANGED heap

----------------------------------------------------------------------------
(* The heap snapshots the pass is run on *)

\* the i-th value of a heap after the realm's intrinsics
N(i) == NumIntrinsics + i

MkHeap(name, vs, gen, mods) ==
    [name |-> name, vals |-> IntrinsicValues \o vs, hasGenerator |-> TRUE,
     generator |-> gen, modules |-> mods, globalLet |-> EmptyMap,
     records |-> <<>>, scan |-> <<>>, resolve |-> <<>>]

Number(n) == PrimitiveValue("Number", n)

Reference(res, base, name) == [res |-> res, base |-> base, referencedName |-> name]

Binding(deletable, initialized, value) ==
    [deletable |-> deletable, initialized |-> initialized, value |-> value]

\* Reference cycles: N(1) is its own prototype, the bound functions N(2) and
\* N(3) target each other, and the closure N(4) captures the binding that
\* holds it.
CycleHeaps ==
    {[MkHeap("cycle",
        <<[ObjectValue EXCEPT !.Prototype = N(1)],
          [ObjectValue EXCEPT !.cls = "BoundFunction",
              !.Prototype = intrinsics.FunctionPrototype,
              !.BoundTargetFunction = N(3), !.BoundThis = N(1),
              !.BoundArguments = [i \in 1..nargs |-> N(4)]],
          [ObjectValue EXCEPT !.cls = "BoundFunction",
              !.Prototype = intrinsics.FunctionPrototype,
              !.BoundTargetFunction = N(2), !.BoundThis = intrinsics.undefined],
          [ObjectValue EXCEPT !.cls = "Function",
              !.Prototype = intrinsics.FunctionPrototype,
              !.ECMAScriptCode = 1, !.Environment = 1]>>,
        gen, <<N(4)>>)
      EXCEPT !.hasGenerator = hasGen,
             !.records = <<[self |-> Binding(FALSE, TRUE, N(4))]>>,
             !.scan = <<[names |-> <<"self">>, modified |-> {}]>>,
             !.resolve = <<[self |-> Reference("declarative", 1, "self")]>>] :
        nargs \in 0..MaxBoundArguments, hasGen \in BOOLEAN,
        gen \in {<<N(1), N(2)>>, <<N(3)>>}}

\* An array N(1) with every combination of the flags of its length, a
\* concrete or an abstract length, and a default, mismatched or own
\* prototype; a plain object N(4) likewise.
ArrayHeaps ==
    {MkHeap("array",
        <<[ObjectValue EXCEPT !.kind = "Array", !.Prototype = aproto,
              !.properties = <<Prop("0", Data(N(4), TRUE, TRUE, TRUE)),
                               Prop("length", Data(len, w, e, c))>>],
          Number(1),
          AbstractValue("length", <<>>, FALSE),
          [ObjectValue EXCEPT !.Prototype = oproto],
          [ObjectValue EXCEPT !.kind = "Array",
              !.Prototype = intrinsics.ArrayPrototype,
              !.properties = <<Prop("length", Data(N(2), TRUE, FALSE, FALSE))>>]>>,
        <<>>, <<N(1)>>) :
        w \in BOOLEAN, e \in BOOLEAN, c \in BOOLEAN, len \in {N(2), N(3)},
        aproto \in {intrinsics.ArrayPrototype, intrinsics.ObjectPrototype, N(5)},
        oproto \in {intrinsics.ObjectPrototype, intrinsics.ArrayPrototype}}

PlainFunction(code, env) ==
    [ObjectValue EXCEPT !.cls = "Function",
        !.Prototype = intrinsics.FunctionPrototype,
        !.ECMAScriptCode = code, !.Environment = env]

\* Two closures N(1) and N(2).  The body of N(1) refers to x, bound in the
\* declarative record 1, and to y, which the resolver finds in the global
\* record or does not find; the body of N(2) refers to x, in the same record
\* or in a record of its own.  The binding x of record 1 holds N(3), which
\* refers to N(2) or does not.
ClosureHeaps ==
    {[MkHeap("closure",
        <<PlainFunction(1, 1),
          PlainFunction(IF sameCode THEN 1 ELSE 2, 2),
          [ObjectValue EXCEPT !.properties =
              <<Prop("g", Data(IF linked THEN N(2) ELSE N(4), TRUE, TRUE, TRUE))>>],
          Number(7)>>,
        <<N(1), N(2)>>, <<>>)
      EXCEPT !.globalLet = [y |-> ylet],
             !.records = <<[x |-> Binding(FALSE, initialized, N(3))],
                           [x |-> Binding(FALSE, TRUE, N(4))]>>,
             !.scan = <<[names |-> <<"x", "y">>, modified |-> mf],
                        [names |-> <<"x">>, modified |-> mg]>>,
             !.resolve = <<[x |-> Reference("declarative", 1, "x"),
                            y |-> Reference(yres, 0, "y")],
                           [x |-> Reference("declarative", grec, "x"),
                            y |-> Reference("global", 0, "y")]>>] :
        linked \in BOOLEAN, sameCode \in BOOLEAN, initialized \in BOOLEAN,
        ylet \in {Undefined, N(4)}, yres \in {"undefined", "global"},
        mf \in SUBSET {"x", "y"}, mg \in SUBSET {"x"}, grec \in {1, 2}}

\* Two functions N(1) and N(2), each residual or not, with one body or with
\* two; the bodies refer to the global z or to nothing outside.
ResidualHeaps ==
    {[MkHeap("residual",
        <<[PlainFunction(1, 1) EXCEPT !.isResidual = residual1],
          [PlainFunction(IF sameCode THEN 1 ELSE 2, 1) EXCEPT !.isResidual = residual2],
          Number(7)>>,
        <<N(1), N(2)>>, <<>>)
      EXCEPT !.globalLet = [z |-> N(3)],
             !.scan = <<[names |-> IF free THEN <<"z">> ELSE <<>>, modified |-> {}],
                        [names |-> <<"z">>, modified |-> {"z"}]>>,
             !.resolve = <<[z |-> Reference("undefined", 0, "z")]>>] :
        residual1 \in BOOLEAN, residual2 \in BOOLEAN, sameCode \in BOOLEAN,
        free \in BOOLEAN}

\* Closures whose resolution breaks a precondition: a deletable binding, an
\* unresolvable reference, a symbol-named reference, an object record.  N(3)
\* is a value of no known kind, among the roots or held by the binding x.
FatalHeaps ==
    {[MkHeap("fatal",
        <<PlainFunction(1, 1), Number(7), UnknownValue, PlainFunction(2, 1)>>,
        gen, <<N(2)>>)
      EXCEPT !.records = <<[x |-> Binding(deletable, TRUE, xval)]>>,
             !.scan = <<[names |-> <<"x", "y">>, modified |-> {"x"}],
                        [names |-> <<"x">>, modified |-> {}]>>,
             !.resolve = <<[x |-> Reference(xres, 1, "x"),
                            y |-> Reference("global", 0, "y")]>>] :
        deletable \in BOOLEAN, xval \in {N(2), N(3)},
        xres \in {"declarative", "unresolvable", "symbol", "object"},
        gen \in {<<N(1)>>, <<N(4), N(1)>>, <<N(3), N(4)>>}}

\* A Map or WeakMap N(1) whose stored entries each have a key or not and a
\* value or not, and a Set N(2) with a cleared entry.
MapEntries ==
    {es \in [1..MaxMapEntries -> [Key : BOOLEAN, Value : BOOLEAN]] : TRUE}

MapHeaps ==
    {MkHeap("map",
        <<[ObjectValue EXCEPT !.kind = kind, !.Prototype = KindPrototype(kind),
              !.hasEntries = TRUE,
              !.entries = [i \in 1..MaxMapEntries |->
                  [Key |-> IF es[i].Key THEN N(2 * i + 1) ELSE Undefined,
                   Value |-> IF es[i].Value THEN N(2 * i + 2) ELSE Undefined]]],
          [ObjectValue EXCEPT !.kind = "Set", !.Prototype = intrinsics.SetPrototype,
              !.hasEntries = TRUE, !.entries = <<N(3), Undefined, N(1)>>]>>
        \o [i \in 1..(2 * MaxMapEntries) |-> Number(i)],
        <<N(1)>>, <<N(2)>>) :
        kind \in {"Map", "WeakMap"}, es \in MapEntries}

\* An object N(1) whose unknown-key descriptor holds a chain of j template
\* links; link j is N(4j-2), its condition N(4j-1), its key N(4j) and its
\* value N(4j+1).  The head is the last link, or a merge node over the whole
\* chain and its first link, or a merge node with a branch that is no
\* Abstract value.
ChainLink(j) ==
    <<AbstractValue("conditional",
          <<N(4 * j - 1), N(4 * j + 1),
            IF j = 1 THEN intrinsics.undefined ELSE N(4 * j - 6)>>, FALSE),
      AbstractValue("template for property name condition", <<N(4 * j)>>, FALSE),
      AbstractValue("key", <<>>, TRUE),
      Number(j)>>

ChainHeaps ==
    {MkHeap("chain",
        <<[ObjectValue EXCEPT !.unknownProperty =
              [defined |-> TRUE,
               descriptor |-> IF shape = "deleted" THEN NoDescriptor
                              ELSE Data(IF shape = "chain" THEN N(4 * n - 2)
                                        ELSE N(4 * n + 2),
                                        TRUE, TRUE, TRUE)]]>>
        \o Flatten([j \in 1..n |-> ChainLink(j)])
        \o <<AbstractValue("conditional",
                 <<N(4 * n + 3), N(4 * n - 2),
                   IF shape = "badmerge" THEN N(5) ELSE N(2)>>, FALSE),
             AbstractValue("==", <<N(4)>>, FALSE)>>,
        <<>>, <<N(1)>>) :
        n \in 1..MaxChainLinks, shape \in {"chain", "merge", "badmerge", "deleted"}}

\* The other kinds: a Date N(1), a typed array N(3) over its buffer N(4), a
\* proxy N(5), accessors N(7) and N(8), a native function N(7), a constructor
\* N(8) with its prototype object N(9) in the default shape or off it in one
\* respect or more, a RegExp N(10), an abstract value
\* with an identifier N(11), an arguments object N(13).
OtherHeaps ==
    {[MkHeap("other",
        <<[ObjectValue EXCEPT !.kind = "Date", !.Prototype = intrinsics.DatePrototype,
              !.DateValue = N(2)],
          Number(0),
          [ObjectValue EXCEPT !.kind = "Uint8Array", !.ViewedArrayBuffer = N(4)],
          [ObjectValue EXCEPT !.kind = "ArrayBuffer"],
          [ObjectValue EXCEPT !.cls = "Proxy", !.ProxyTarget = N(1),
              !.ProxyHandler = N(6)],
          [ObjectValue EXCEPT !.properties =
              <<Prop("gone", NoDescriptor),
                Prop("p", Accessor(N(7), N(8), TRUE, TRUE))>>],
          [ObjectValue EXCEPT !.cls = "NativeFunction",
              !.Prototype = intrinsics.FunctionPrototype,
              !.properties = <<Prop("length", Accessor(N(8), Undefined, FALSE, TRUE)),
                               Prop("name", Data(N(2), FALSE, FALSE, TRUE)),
                               Prop("q", Data(N(15), TRUE, TRUE, TRUE))>>],
          [PlainFunction(1, 1) EXCEPT !.isResidual = residual, !.properties =
              <<Prop("length", Data(N(2), FALSE, FALSE, TRUE)),
                Prop("prototype", Data(N(9), TRUE, FALSE, FALSE)),
                Prop("caller", Data(intrinsics.undefined, TRUE, FALSE, TRUE))>>],
          [ObjectValue EXCEPT !.originalConstructor = N(8), !.extensible = extensible,
              !.symbolsSize = IF shape = "symbols" THEN 1 ELSE 0,
              !.Prototype = IF shape = "proto" THEN intrinsics.ArrayPrototype
                            ELSE intrinsics.ObjectPrototype,
              !.properties =
                  When(shape # "empty",
                       Prop("constructor",
                            Data(IF shape = "other" THEN N(2) ELSE N(8), TRUE, FALSE, TRUE)))
                  \o When(extra, Prop("m", Data(N(10), TRUE, TRUE, TRUE)))],
          [ObjectValue EXCEPT !.kind = "RegExp", !.properties =
              <<Prop("lastIndex", Data(IF extra THEN N(2) ELSE N(15), TRUE, FALSE, FALSE))>>],
          AbstractValue("derived", <<N(12)>>, TRUE),
          SymbolValue,
          [ObjectValue EXCEPT !.ParameterMap = N(6)],
          AbstractValue("sentinel member expression", <<N(15), N(16)>>, FALSE),
          Number(1),
          EmptyValue>>,
        <<N(5), N(11)>>, <<N(3), N(13), N(14)>>)
      EXCEPT !.scan = <<[names |-> <<"z">>, modified |-> {}]>>,
             !.resolve = <<[z |-> Reference("undefined", 0, "z")]>>] :
        residual \in BOOLEAN, extensible \in BOOLEAN, extra \in BOOLEAN,
        shape \in {"plain", "symbols", "proto", "empty", "other"}}

Heaps ==
    CycleHeaps \cup ArrayHeaps \cup ClosureHeaps \cup FatalHeaps \cup MapHeaps
    \cup ChainHeaps \cup OtherHeaps \cup ResidualHeaps

----------------------------------------------------------------------------
(* The state machine *)

Init ==
    /\ heap \in Heaps
    /\ generator = heap.generator
    /\ initializedModules = heap.modules
    /\ declarativeEnvironmentRecordsBindings = EmptyMap
    /\ globalBindings = EmptyMap
    /\ functionInfos = EmptyMap
    /\ functionBindings = EmptyMap
    /\ values = {}
    /\ ignoredProperties = EmptyMap
    /\ bindings = <<>>
    /\ errors = {}
    /\ stack = <<>>
    /\ started = FALSE
    /\ aborted = FALSE
    /\ calls = {}
    /\ pass = 1
    /\ firstPass = NoResults

Next ==
    \/ constructor
    \/ visitRoots
    \/ visitGenerator
    \/ visitValue
    \/ visitAbstractValue
    \/ visitValueProxy
    \/ visitValueArray
    \/ visitValueObject
    \/ visitValueMap
    \/ visitValueSet
    \/ visitValueFunction
    \/ visitObjectProperties
    \/ visitDescriptor
    \/ visitObjectPrototype
    \/ visitConstructorPrototype
    \/ visitObjectPropertiesWithComputedNames
    \/ visitGlobalBinding
    \/ visitDeclarativeEnvironmentRecordBinding

Spec == Init /\ [][Next]_vars

\* The pass is one synchronous call: a pending call always runs.
FairSpec == Spec /\ WF_vars(Next)

----------------------------------------------------------------------------
(* Claims *)

\* the pass ended by returning from visitRoots
Completed == Ended /\ ~aborted

\* C1: on every heap, those with reference cycles included, a pass started by
\* visitRoots reaches a state where no call is pending.
C1_Termination == started ~> (stack = <<>>)

C1_Witness ==
    /\ heap.name = "cycle"
    /\ Completed
    /\ {N(1), N(2), N(3), N(4)} \subseteq values
    /\ Val(heap, N(1)).Prototype = N(1)
    /\ Val(heap, Val(heap, N(2)).BoundTargetFunction).BoundTargetFunction = N(2)
    /\ bindings[functionBindings[N(4)]["self"]].value = N(4)

\* the values a pass expands as objects: own properties, then prototype
Expanded(h, v) ==
    Dispatch(h, v) \in {"visitValueArray", "visitValueFunction", "visitValueObject"}

\* some visitValue call was made from the place `via`
Called(via) == \E c \in calls : c.via = via

\* visitValue(val) was called from the place `via`
CalledWith(via, val) == \E c \in calls : c.via = via /\ c.val = val

\* C2: visitValue on a value that is already in the visited set pops the call
\* and changes no table, no diagnostic and no abort flag; a value that is not
\* yet in the set is inserted in the step that dispatches on it; every
\* pending handler call is for a value already in the set; and no value is
\* found unvisited by two calls.
C2_RevisitStep ==
    (Running("visitValue") /\ Top.val \in values)
        => (UNCHANGED <<tables, errors, aborted, started>> /\ stack' = Tail(stack))

C2_FirstVisitStep ==
    (Running("visitValue") /\ Top.val \notin values)
        => values' = values \cup {Top.val}

C2_InsertedBeforeChildren ==
    /\ \A i \in 1..Len(stack) :
          stack[i].op \in {"visitAbstractValue", "visitValueProxy", "visitValueArray",
                           "visitValueObject", "visitValueMap", "visitValueSet",
                           "visitValueFunction", "visitObjectProperties",
                           "visitDescriptor", "visitObjectPrototype",
                           "visitConstructorPrototype"}
              => stack[i].val \in values
    /\ \A c, d \in calls : (c.fresh /\ d.fresh /\ c.val = d.val) => c = d

C2_VisitedOnce ==
    [][C2_RevisitStep /\ C2_FirstVisitStep]_vars /\ []C2_InsertedBeforeChildren

\* a call found its value in the set: the closure N(4) reached again through
\* the binding it captures
C2_Witness ==
    /\ heap.name = "cycle"
    /\ \E c \in calls : ~c.fresh /\ c.val = N(4) /\ c.via.site = "lexicalBinding"
    /\ N(4) \in values

----------------------------------------------------------------------------
(* Reachability in the heap, as a relation on values *)

Defined(S) == S \ {Undefined}

Range(f) == {f[i] : i \in DOMAIN f}

\* value, get and set of the present descriptors the classifier does not omit
DescriptorEdges(h, v) ==
    UNION {LET d == Val(h, v).properties[i].descriptor
           IN IF d.defined /\ ~canIgnoreProperty(h, v, Val(h, v).properties[i].key, d)
              THEN Defined({d.value, d.get, d.set}) ELSE {}
           : i \in 1..Len(Val(h, v).properties)}

PrototypeEdges(h, v) ==
    IF Val(h, v).Prototype # KindPrototype(getKind(h, v))
    THEN {Val(h, v).Prototype} ELSE {}

ConstructorPrototypeEdges(h, v) ==
    LET p == getPropertyValue(h, v, "prototype")
    IN IF IsFunctionValue(h, v) /\ IsObjectValue(h, p)
          /\ Val(h, p).originalConstructor = v /\ ~isDefaultPrototype(h, p)
       THEN {p} ELSE {}

\* the template links and the merge nodes of the chain that starts at absVal
RECURSIVE ChainNodes(_, _)
ChainNodes(h, absVal) ==
    LET a == Val(h, absVal).args
    IN {absVal} \cup
       (IF IsTemplate(h, a[1])
        THEN IF IsAbstractValue(h, a[3]) THEN ChainNodes(h, a[3]) ELSE {}
        ELSE ChainNodes(h, a[2]) \cup ChainNodes(h, a[3]))

IsTemplateLink(h, node) == IsTemplate(h, Val(h, node).args[1])

\* what the walk of one node of a chain hands to visitValue
ChainNodeEdges(h, node) ==
    IF IsTemplateLink(h, node)
    THEN {Val(h, Val(h, node).args[1]).args[1], Val(h, node).args[2]}
    ELSE {Val(h, node).args[1]}

HasChain(h, v) ==
    Val(h, v).unknownProperty.defined /\ Val(h, v).unknownProperty.descriptor.defined

ComputedNameEdges(h, v) ==
    IF HasChain(h, v)
    THEN UNION {ChainNodeEdges(h, node) :
                    node \in ChainNodes(h, Val(h, v).unknownProperty.descriptor.value)}
    ELSE {}

AbstractLengthEdges(h, v) ==
    IF IsArray(h, v) /\ IsAbstractValue(h, GetLength(h, v))
    THEN {GetLength(h, v)} ELSE {}

\* the value of the binding a free name of the plain function v resolves to
CapturedValue(h, v, name) ==
    LET reference == ResolveBinding(h, name, Val(h, v).Environment)
    IN IF reference.res = "declarative"
       THEN {BindingValue(h.records[reference.base][reference.referencedName])}
       ELSE IF reference.res = "global"
       THEN Defined({getGlobalLetBinding(h, reference.referencedName)})
       ELSE Defined({getGlobalLetBinding(h, name)})

CaptureEdges(h, v) ==
    IF Val(h, v).cls = "Function"
    THEN UNION {CapturedValue(h, v, name) :
                    name \in Range(h.scan[Val(h, v).ECMAScriptCode].names)}
    ELSE {}

\* internal slots: bound target, this and arguments; map and set entries;
\* Date value; viewed buffer; default-constructor back-reference
SlotEdges(h, v) ==
    LET o == Val(h, v)
    IN IF o.cls = "BoundFunction"
       THEN {o.BoundTargetFunction, o.BoundThis} \cup Range(o.BoundArguments)
       ELSE IF o.cls # "Object" \/ IsArray(h, v) THEN {}
       ELSE IF o.originalConstructor # Undefined THEN {o.originalConstructor}
       ELSE IF o.kind = "Date" THEN {o.DateValue}
       ELSE IF o.kind \in TypedArrayKinds THEN {o.ViewedArrayBuffer}
       ELSE IF o.kind \in {"Map", "WeakMap"}
       THEN UNION {IF o.entries[i].Key # Undefined /\ o.entries[i].Value # Undefined
                   THEN {o.entries[i].Key, o.entries[i].Value} ELSE {}
                   : i \in DOMAIN o.entries}
       ELSE IF o.kind \in {"Set", "WeakSet"} THEN Defined(Range(o.entries))
       ELSE {}

\* the edges the claim lists
ListedEdges(h, v) ==
    IF IsAbstractValue(h, v) THEN Range(Val(h, v).args)
    ELSE IF Val(h, v).intrinsic \/ Val(h, v).cls \notin ObjectClasses THEN {}
    ELSE IF Val(h, v).cls = "Proxy"
    THEN {Val(h, v).ProxyTarget, Val(h, v).ProxyHandler}
    ELSE DescriptorEdges(h, v) \cup PrototypeEdges(h, v)
         \cup ConstructorPrototypeEdges(h, v) \cup SlotEdges(h, v)
         \cup CaptureEdges(h, v)

\* the listed edges, the operands a computed-name chain hands to visitValue
\* and the abstract length of an array
FollowedEdges(h, v) ==
    ListedEdges(h, v)
    \cup (IF Expanded(h, v)
          THEN ComputedNameEdges(h, v) \cup AbstractLengthEdges(h, v) ELSE {})

Roots(h) == (IF h.hasGenerator THEN Range(h.generator) ELSE {}) \cup Range(h.modules)

RECURSIVE ReachableListed(_, _)
ReachableListed(h, S) ==
    LET T == S \cup UNION {ListedEdges(h, v) : v \in S}
    IN IF T = S THEN S ELSE ReachableListed(h, T)

RECURSIVE Reachable(_, _)
Reachable(h, S) ==
    LET T == S \cup UNION {FollowedEdges(h, v) : v \in S}
    IN IF T = S THEN S ELSE Reachable(h, T)

\* C3 as stated: a pass that ends without a fatal abort has visited exactly
\* the values reachable from the roots along the listed edges.
C3_VisitedIsReachableListed ==
    Completed => values = ReachableListed(heap, Roots(heap))

\* C3, amended: a pass that ends without a fatal abort has visited exactly the
\* values reachable from the roots along the listed edges, the operands a
\* computed-name chain hands to visitValue (key and value of a template link,
\* condition of a merge node) and the abstract length of an array.
C3_VisitedIsReachable ==
    Completed => values = Reachable(heap, Roots(heap))

\* a completed pass over the heap of the other kinds, through a proxy, a
\* Date, a typed array and accessors
C3_Witness ==
    /\ heap.name = "other"
    /\ Completed
    /\ {N(1), N(2), N(4), N(6), N(7), N(8)} \subseteq values
    /\ values = Reachable(heap, Roots(heap))
    /\ values # Range([i \in DOMAIN heap.vals |-> i])

\* C4 as stated: a second pass over the same snapshot from the same roots,
\* handed to it in any order, ends with the tables the first pass ended with.
C4_SameTables == (pass = 2 /\ Ended) => Results = firstPass

\* C4, amended: when neither pass ends in a fatal abort, the second pass ends
\* with the same visited set, ignorable-property sets, global and lexical
\* binding tables (modified flags included) and capture tables as the first.
C4_SameTablesUnlessAborted ==
    (pass = 2 /\ Completed /\ ~firstPass.aborted) => Results = firstPass

\* the second pass took the roots in the other order and ended like the first
C4_Witness ==
    /\ heap.name = "closure"
    /\ pass = 2
    /\ Completed
    /\ generator # heap.generator
    /\ Results = firstPass
    /\ DOMAIN firstPass.functionBindings = {N(1), N(2)}
    /\ \E n \in DOMAIN firstPass.functionBindings[N(1)] :
           ~firstPass.functionBindings[N(1)][n].global
           /\ firstPass.functionBindings[N(1)][n].modified

\* the values a pass expands as arrays
VisitedArrays == {a \in values : Dispatch(heap, a) = "visitValueArray"}

Ignored(obj, key) ==
    obj \in DOMAIN ignoredProperties /\ key \in ignoredProperties[obj]

IsConcreteNumber(h, v) ==
    v # Undefined /\ Val(h, v).cls = "Primitive" /\ Val(h, v).ptype = "Number"

\* C5: at the end of a pass, for every visited array with a length descriptor:
\* length is in the array's ignorable-property set iff the descriptor is
\* writable, not enumerable and not configurable; an ignorable length with a
\* concrete number as value is not handed to visitValue by the array; a length
\* that is not ignorable has its value handed to visitValue.
C5_ArrayLength ==
    Completed =>
        \A a \in VisitedArrays :
            LET i == PropertyIndex(heap, a, "length")
                d == Val(heap, a).properties[i].descriptor
                default == d.writable /\ ~d.enumerable /\ ~d.configurable
            IN (i # 0 /\ d.defined) =>
                /\ Ignored(a, "length") <=> default
                /\ (default /\ IsConcreteNumber(heap, d.value))
                     => ~\E c \in calls : c.via.from = a /\ c.val = d.value
                /\ ~default => CalledWith(Via("value", a, "length", i), d.value)

\* an array whose default length is a concrete number that nothing else
\* refers to, and so is not visited
C5_Witness ==
    /\ heap.name = "array"
    /\ Completed
    /\ N(1) \in values
    /\ Ignored(N(1), "length")
    /\ getPropertyValue(heap, N(1), "length") = N(2)
    /\ N(2) \notin values

\* the values a pass expands as objects
VisitedObjects == {o \in values : Expanded(heap, o)}

\* C6: at the end of a pass, every visited object has handed its prototype to
\* visitValue iff the prototype is not the default prototype of the object's
\* kind: not an Object-kind object with the Object prototype, not an
\* Array-kind object with the Array prototype, but an Array-kind object with
\* the Object prototype.
C6_PrototypeElision ==
    Completed =>
        \A o \in VisitedObjects :
            LET proto == Val(heap, o).Prototype
                kind == getKind(heap, o)
                visited == Called(Via("prototype", o, "", 0))
            IN /\ visited <=> proto # KindPrototype(kind)
               /\ visited => CalledWith(Via("prototype", o, "", 0), proto)
               /\ (kind = "Object" /\ proto = intrinsics.ObjectPrototype) => ~visited
               /\ (kind = "Array" /\ proto = intrinsics.ArrayPrototype) => ~visited
               /\ (kind = "Array" /\ proto = intrinsics.ObjectPrototype) => visited

\* an array with the Object prototype, which it visits, holding an object
\* with the Object prototype, which does not
C6_Witness ==
    /\ heap.name = "array"
    /\ Completed
    /\ {N(1), N(4)} \subseteq values
    /\ Val(heap, N(1)).Prototype = intrinsics.ObjectPrototype
    /\ Val(heap, N(4)).Prototype = intrinsics.ObjectPrototype
    /\ CalledWith(Via("prototype", N(1), "", 0), intrinsics.ObjectPrototype)
    /\ ~Called(Via("prototype", N(4), "", 0))

\* the free names the scan of the body of f found
FreeNames(h, f) == Range(h.scan[Val(h, f).ECMAScriptCode].names)

\* the free names the scan found assigned to
ModifiedNames(h, f) == h.scan[Val(h, f).ECMAScriptCode].modified

\* the VisitedBinding the capture table of f has for name
Captured(f, name) == bindings[functionBindings[f][name]]

\* C7: in every state, the capture table of a plain function whose visit has
\* completed has one entry for each free name of its Function Info and no
\* other; the entry is lexical, with its owning record, for a name that
\* resolves to a Declarative record, and global for a name that resolves to
\* the Global record or was not bound.
C7_CaptureTable ==
    \A f \in DOMAIN functionBindings :
        /\ Val(heap, f).cls = "Function"
        /\ DOMAIN functionBindings[f] = FreeNames(heap, f)
        /\ \A n \in FreeNames(heap, f) :
               LET reference == ResolveBinding(heap, n, Val(heap, f).Environment)
               IN /\ reference.res \in {"declarative", "global", "undefined"}
                  /\ reference.res = "declarative" =>
                        /\ ~Captured(f, n).global
                        /\ Captured(f, n).declarativeEnvironmentRecord = reference.base
                  /\ reference.res \in {"global", "undefined"} =>
                        /\ Captured(f, n).global
                        /\ Captured(f, n).declarativeEnvironmentRecord = Undefined

\* a body with two free names, x bound in a record and y never bound
C7_Witness ==
    /\ heap.name = "closure"
    /\ N(1) \in DOMAIN functionBindings
    /\ DOMAIN functionBindings[N(1)] = {"x", "y"}
    /\ ResolveBinding(heap, "y", 1).res = "undefined"
    /\ ~Captured(N(1), "x").global
    /\ Captured(N(1), "y").global

\* the free names of visited plain functions that resolve to Declarative records
LexicalCaptures ==
    {fn \in UNION {{<<f, n>> : n \in DOMAIN functionBindings[f]} :
                      f \in DOMAIN functionBindings} :
        ~Captured(fn[1], fn[2]).global}

\* C8 as stated: at the end of a pass the modified flag of the entry of a
\* lexical free name n of f is set iff the scan of the body of f found an
\* assignment to n.
C8_ModifiedIffOwnScan ==
    Completed =>
        \A fn \in LexicalCaptures :
            Captured(fn[1], fn[2]).modified <=> fn[2] \in ModifiedNames(heap, fn[1])

\* C8, amended: at the end of a pass the modified flag of the entry of a
\* lexical free name n of f is set iff the scan of the body of some visited
\* plain function, f or another, found an assignment to a free name that
\* resolves to the same binding of the same Declarative record.
C8_ModifiedIffSomeScan ==
    Completed =>
        \A fn \in LexicalCaptures :
            Captured(fn[1], fn[2]).modified <=>
                \E gm \in LexicalCaptures :
                    /\ ResolveBinding(heap, gm[2], Val(heap, gm[1]).Environment)
                         = ResolveBinding(heap, fn[2], Val(heap, fn[1]).Environment)
                    /\ gm[2] \in ModifiedNames(heap, gm[1])

\* two closures over the same binding, of which only the second assigns to it
C8_Witness ==
    /\ heap.name = "closure"
    /\ Completed
    /\ {N(1), N(2)} \subseteq DOMAIN functionBindings
    /\ functionBindings[N(1)]["x"] = functionBindings[N(2)]["x"]
    /\ "x" \notin ModifiedNames(heap, N(1))
    /\ "x" \in ModifiedNames(heap, N(2))
    /\ Captured(N(1), "x").modified

\* the Map and WeakMap objects whose entries a pass walks
VisitedMaps ==
    {m \in values : /\ Dispatch(heap, m) = "visitValueObject"
                    /\ Val(heap, m).originalConstructor = Undefined
                    /\ Val(heap, m).kind \in {"Map", "WeakMap"}}

\* the entries of m of which the pass handed the key to visitValue
KeysVisited(m) == {c.via.idx : c \in {d \in calls : d.via.site = "mapKey" /\ d.via.from = m}}

\* C9: at the end of a pass, for every visited Map or WeakMap, the key and the
\* value of each stored entry that has both are handed to visitValue, and an
\* entry without a key or without a value hands over neither; three entries
\* of which the second has no key make exactly two key/value pairs.
C9_MapEntries ==
    Completed =>
        \A m \in VisitedMaps :
            LET entries == Val(heap, m).entries
                both(i) == entries[i].Key # Undefined /\ entries[i].Value # Undefined
            IN /\ \A i \in 1..Len(entries) :
                      IF both(i)
                      THEN /\ CalledWith(Via("mapKey", m, "", i), entries[i].Key)
                           /\ CalledWith(Via("mapValue", m, "", i), entries[i].Value)
                      ELSE /\ ~Called(Via("mapKey", m, "", i))
                           /\ ~Called(Via("mapValue", m, "", i))
               /\ Cardinality(KeysVisited(m)) = Cardinality({i \in 1..Len(entries) : both(i)})
               /\ (/\ Len(entries) = 3
                   /\ both(1) /\ entries[2].Key = Undefined /\ both(3))
                     => KeysVisited(m) = {1, 3}

\* a Map whose second entry alone lacks its key: the first and the last entry
\* are visited, the value of the second is not
C9_Witness ==
    /\ heap.name = "map"
    /\ Completed
    /\ N(1) \in VisitedMaps
    /\ Val(heap, N(1)).kind = "Map"
    /\ Val(heap, N(1)).entries[2].Key = Undefined
    /\ Val(heap, N(1)).entries[2].Value # Undefined
    /\ KeysVisited(N(1)) = {1, Len(Val(heap, N(1)).entries)}
    /\ Val(heap, N(1)).entries[2].Value \notin values

\* the visited objects with a computed-name chain
VisitedWithChain == {o \in VisitedObjects : HasChain(heap, o)}

\* the nodes of a chain from which the pass handed a value to visitValue
NodesWalked ==
    {c.via.from : c \in {d \in calls : d.via.site \in
        {"computedKey", "computedValue", "computedCondition"}}}

\* C10: at the end of a pass, for every visited object with a computed-name
\* chain, the key operand and the value operand of every template link and
\* the condition of every merge node are handed to visitValue, the walk
\* reaches the earlier link of a link exactly when that operand is an
\* Abstract value, and nothing but the nodes of the chains is walked.
C10_ComputedNames ==
    Completed =>
        /\ \A o \in VisitedWithChain :
              \A node \in ChainNodes(heap, Val(heap, o).unknownProperty.descriptor.value) :
                  LET a == Val(heap, node).args
                  IN IF Val(heap, a[1]).akind = "template for property name condition"
                     THEN /\ CalledWith(Via("computedKey", node, "", 0), Val(heap, a[1]).args[1])
                          /\ CalledWith(Via("computedValue", node, "", 0), a[2])
                          /\ ~Called(Via("computedCondition", node, "", 0))
                          /\ IsAbstractValue(heap, a[3]) <=> a[3] \in NodesWalked
                     ELSE /\ CalledWith(Via("computedCondition", node, "", 0), a[1])
                          /\ {a[2], a[3]} \subseteq NodesWalked
        /\ NodesWalked =
              UNION {ChainNodes(heap, Val(heap, o).unknownProperty.descriptor.value) :
                         o \in VisitedWithChain}

\* a chain of two links: both keys and both values are visited, and the walk
\* stops at the first link, whose earlier link is undefined
C10_Witness ==
    /\ heap.name = "chain"
    /\ Completed
    /\ Val(heap, N(1)).unknownProperty.descriptor.value = N(6)
    /\ Val(heap, N(6)).args[3] = N(2)
    /\ Val(heap, N(2)).args[3] = intrinsics.undefined
    /\ NodesWalked = {N(2), N(6)}
    /\ {N(4), N(5), N(8), N(9)} \subseteq values
    /\ intrinsics.undefined \notin values

----------------------------------------------------------------------------
(* C11: the tables only grow *)

\* m2 has every key of m1, bound to the same thing
Extends(m1, m2) ==
    DOMAIN m1 \subseteq DOMAIN m2 /\ \A k \in DOMAIN m1 : m2[k] = m1[k]

\* the VisitedBinding records of a step's end are those of its start, in
\* place, but for a modified flag that went from false to true, and new ones
RecordsKept ==
    /\ Len(bindings) <= Len(bindings')
    /\ \A i \in 1..Len(bindings) :
          /\ [bindings'[i] EXCEPT !.modified = FALSE]
               = [bindings[i] EXCEPT !.modified = FALSE]
          /\ bindings[i].modified => bindings'[i].modified

\* a step of one visitor: nothing leaves a table and nothing memoized is
\* replaced
C11_Grows ==
    pass' = pass =>
        /\ values \subseteq values'
        /\ DOMAIN ignoredProperties \subseteq DOMAIN ignoredProperties'
        /\ \A o \in DOMAIN ignoredProperties :
               ignoredProperties[o] \subseteq ignoredProperties'[o]
        /\ Extends(globalBindings, globalBindings')
        /\ DOMAIN declarativeEnvironmentRecordsBindings
               \subseteq DOMAIN declarativeEnvironmentRecordsBindings'
        /\ \A r \in DOMAIN declarativeEnvironmentRecordsBindings :
               Extends(declarativeEnvironmentRecordsBindings[r],
                       declarativeEnvironmentRecordsBindings'[r])
        /\ Extends(functionInfos, functionInfos')
        /\ Extends(functionBindings, functionBindings')
        /\ RecordsKept

\* a visitor that has not been run has nothing in any table
C11_EmptyWhenCreated ==
    ~started =>
        /\ values = {} /\ ignoredProperties = EmptyMap
        /\ globalBindings = EmptyMap
        /\ declarativeEnvironmentRecordsBindings = EmptyMap
        /\ functionInfos = EmptyMap /\ functionBindings = EmptyMap
        /\ bindings = <<>>

\* C11: every table is empty when the visitor is created, and over a pass no
\* value leaves the visited set, no key leaves an ignorable-property set, no
\* memoized binding record or Function Info is replaced by another, and a
\* modified flag that is true stays true.
C11_Monotone == [][C11_Grows]_vars /\ []C11_EmptyWhenCreated

\* a pass is over in which a closure that assigns to x was visited before a
\* closure over the same x that does not, and the flag of x is still set
C11_Witness ==
    /\ heap.name = "closure"
    /\ Completed
    /\ generator = <<N(1), N(2)>>
    /\ {N(1), N(2)} \subseteq DOMAIN functionBindings
    /\ functionBindings[N(1)]["x"] = functionBindings[N(2)]["x"]
    /\ "x" \in ModifiedNames(heap, N(1))
    /\ "x" \notin ModifiedNames(heap, N(2))
    /\ ~Captured(N(2), "x").global
    /\ Captured(N(2), "x").modified

----------------------------------------------------------------------------
(* C12: Abstract values with an identifier *)

\* the visited Abstract values that carry an identifier
VisitedIdentified ==
    {a \in values : IsAbstractValue(heap, a) /\ Val(heap, a).hasIdentifier}

\* the values some root or some visited value other than a hands to visitValue
ReachedNotThrough(a) == {c.val : c \in {d \in calls : d.via.from # a}}

\* C12 as stated: at the end of a pass a visited Abstract value with an
\* identifier has handed none of its operands to visitValue, and an operand
\* that nothing else hands over is not in the visited set.
C12_IdentifiedIsLeaf ==
    Completed =>
        \A a \in VisitedIdentified :
            /\ ~\E c \in calls : c.via.site = "operand" /\ c.via.from = a
            /\ \A i \in 1..Len(Val(heap, a).args) :
                   Val(heap, a).args[i] \notin ReachedNotThrough(a)
                       => Val(heap, a).args[i] \notin values

\* C12, amended: isLeaf answers true for an Abstract value with an
\* identifier, but at the end of a pass every visited Abstract value, with
\* an identifier or without, has handed each of its operands to visitValue,
\* in order, and every operand is in the visited set.
C12_IdentifiedIsExpanded ==
    Completed =>
        /\ \A a \in VisitedIdentified : isLeaf(heap, a)
        /\ \A a \in {v \in values : IsAbstractValue(heap, v)} :
               \A i \in 1..Len(Val(heap, a).args) :
                   /\ CalledWith(Via("operand", a, "", i), Val(heap, a).args[i])
                   /\ Val(heap, a).args[i] \in values

\* an Abstract value with an identifier among the roots, whose one operand
\* nothing else refers to: the operand is visited
C12_Witness ==
    /\ heap.name = "other"
    /\ Completed
    /\ N(11) \in VisitedIdentified
    /\ Val(heap, N(11)).args = <<N(12)>>
    /\ N(12) \notin ReachedNotThrough(N(11))
    /\ N(12) \in values

----------------------------------------------------------------------------
(* C13: objects with a parameter map *)

\* the visited objects of visitValueObject's default branch that carry a
\* parameter map
VisitedArgumentsObjects ==
    {o \in values : /\ Dispatch(heap, o) = "visitValueObject"
                    /\ Val(heap, o).originalConstructor = Undefined
                    /\ getKind(heap, o) = "Object"
                    /\ Val(heap, o).ParameterMap # Undefined}

\* C13: at the end of a pass every visited non-array, non-function object
\* that carries a parameter map has a diagnostic reported for it, and has
\* been visited like a plain object: its prototype handed to visitValue
\* unless it is the Object prototype, the value of each present property
\* that cannot be ignored handed to visitValue; the pass was not aborted.
C13_ArgumentsObjectReported ==
    Ended =>
        \A o \in VisitedArgumentsObjects :
            /\ \E e \in errors : e[1] = o
            /\ ~aborted
            /\ Called(Via("prototype", o, "", 0))
                 <=> Val(heap, o).Prototype # intrinsics.ObjectPrototype
            /\ \A i \in 1..Len(Val(heap, o).properties) :
                   LET p == Val(heap, o).properties[i]
                   IN (/\ p.descriptor.defined
                       /\ p.descriptor.value # Undefined
                       /\ ~canIgnoreProperty(heap, o, p.key, p.descriptor))
                        => CalledWith(Via("value", o, p.key, i), p.descriptor.value)

\* a pass is over that visited an object with a parameter map
C13_Witness ==
    /\ heap.name = "other"
    /\ Completed
    /\ N(13) \in VisitedArgumentsObjects
    /\ ~\E e \in errors : e[1] = N(13)

----------------------------------------------------------------------------
(* C14: residual functions that refer to outer names *)

\* the visited plain functions whose visit went past the invariants of
\* lines 327-331
VisitedPlainFunctions ==
    {f \in values : Dispatch(heap, f) = "visitValueFunction" /\ IsPlainFunction(heap, f)}

\* the visited residual plain functions whose body has free names
ResidualClosures ==
    {f \in VisitedPlainFunctions : Val(heap, f).isResidual /\ FreeNames(heap, f) # {}}

ResidualError(f) == <<f, "residual function refers to outer identifiers">>

\* the function has its capture table, and the value of every binding in
\* it, when the binding has one, is visited
CaptureTableVisited(f) ==
    /\ f \in DOMAIN functionBindings
    /\ DOMAIN functionBindings[f] = FreeNames(heap, f)
    /\ \A n \in DOMAIN functionBindings[f] :
           Captured(f, n).value # Undefined => Captured(f, n).value \in values

\* C14 as stated: at the end of a pass every visited residual plain function
\* whose body has free names has been reported, and has its capture table
\* with the captured bindings visited.
C14_EveryResidualReported ==
    Completed =>
        \A f \in ResidualClosures :
            ResidualError(f) \in errors /\ CaptureTableVisited(f)

\* a step reports f exactly when it is the step of the visit of f that
\* analyses the body of f for the first time, f is residual and the body
\* has free names
C14_ReportStep ==
    \A f \in DOMAIN heap.vals :
        (ResidualError(f) \in errors' \ errors) <=>
            /\ Running("visitValueFunction") /\ Top.val = f /\ Top.pc = 1
            /\ IsPlainFunction(heap, f)
            /\ Val(heap, f).ECMAScriptCode \notin DOMAIN functionInfos
            /\ Val(heap, f).ECMAScriptCode \in DOMAIN functionInfos'
            /\ Val(heap, f).isResidual /\ FreeNames(heap, f) # {}

\* a reported function is residual with free names, of the visited functions
\* that share a body at most one is reported, and a residual function with
\* free names that shares its body with no other visited function is reported
C14_Reported ==
    Completed =>
        /\ \A f \in DOMAIN heap.vals :
               ResidualError(f) \in errors => f \in ResidualClosures
        /\ \A f \in ResidualClosures : \A g \in VisitedPlainFunctions :
               (/\ f # g
                /\ Val(heap, f).ECMAScriptCode = Val(heap, g).ECMAScriptCode
                /\ ResidualError(f) \in errors) => ResidualError(g) \notin errors
        /\ \A f \in ResidualClosures :
               (\A g \in VisitedPlainFunctions \ {f} :
                    Val(heap, f).ECMAScriptCode # Val(heap, g).ECMAScriptCode)
                 => ResidualError(f) \in errors

\* C14, amended: a visited residual plain function whose body has free names
\* is reported exactly when its visit is the one that analyses that body for
\* the first time in the pass; reported or not, at the end of a pass that
\* completes it has its capture table and its captured bindings are visited.
C14_ReportedOnFirstAnalysis ==
    /\ [][C14_ReportStep]_vars
    /\ [](C14_Reported /\ (Completed => \A f \in ResidualClosures : CaptureTableVisited(f)))

\* two residual functions over one body that refers to z: the first is
\* reported, the second is not, and both have their capture tables
C14_Witness ==
    /\ heap.name = "residual"
    /\ Completed
    /\ generator = <<N(1), N(2)>>
    /\ ResidualClosures = {N(1), N(2)}
    /\ Val(heap, N(1)).ECMAScriptCode = Val(heap, N(2)).ECMAScriptCode
    /\ ResidualError(N(1)) \in errors
    /\ ResidualError(N(2)) \notin errors
    /\ CaptureTableVisited(N(1)) /\ CaptureTableVisited(N(2))
    /\ N(3) \in values

----------------------------------------------------------------------------
(* C15: free names the resolver cannot resolve *)

\* the free names of visited plain functions for which ResolveBinding
\* returns a Reference that IsUnresolvableReference
UnresolvableNames ==
    {fn \in UNION {{<<f, n>> : n \in FreeNames(heap, f)} : f \in VisitedPlainFunctions} :
        ResolveBinding(heap, fn[2], Val(heap, fn[1]).Environment).res = "unresolvable"}

\* C15: at the end of a pass, for every visited plain function f and every
\* free name n of f whose resolution is unresolvable, the pass was not
\* aborted, the global binding table has a record for n, and the capture
\* table of f maps n to that record.
C15_UnresolvableIsGlobal ==
    Ended =>
        \A fn \in UnresolvableNames :
            /\ ~aborted
            /\ fn[2] \in DOMAIN globalBindings
            /\ fn[1] \in DOMAIN functionBindings
            /\ fn[2] \in DOMAIN functionBindings[fn[1]]
            /\ functionBindings[fn[1]][fn[2]] = globalBindings[fn[2]]

\* the pass was aborted at the unresolvable name x of the only root: no
\* global record for x and no capture table
C15_Witness ==
    /\ heap.name = "fatal"
    /\ generator = <<N(1)>>
    /\ Ended
    /\ aborted
    /\ <<N(1), "x">> \in UnresolvableNames
    /\ values = {N(1)}
    /\ "x" \notin DOMAIN globalBindings
    /\ N(1) \notin DOMAIN functionBindings

----------------------------------------------------------------------------
(* C16: fatal conditions *)

\* the free name n of f resolves to a deletable binding of a Declarative
\* record, or to a reference whose name is no string
FatalName(f, n) ==
    LET reference == ResolveBinding(heap, n, Val(heap, f).Environment)
    IN \/ reference.res = "symbol"
       \/ /\ reference.res = "declarative"
          /\ heap.records[reference.base][reference.referencedName].deletable

\* the visited values of no kind visitValue knows
VisitedUnknown == {v \in values : Dispatch(heap, v) = "invariant"}

\* the functions whose visit is under way
PendingFunctions ==
    {stack[i].val : i \in {j \in 1..Len(stack) : stack[j].op = "visitValueFunction"}}

\* each of the three conditions ends the pass at once: no call is pending
\* in a state that has met one
C16_Aborts ==
    /\ aborted => stack = <<>>
    /\ VisitedUnknown # {} => aborted
    /\ \A r \in DOMAIN declarativeEnvironmentRecordsBindings :
           \A n \in DOMAIN declarativeEnvironmentRecordsBindings[r] :
               ~heap.records[r][n].deletable
    /\ Ended =>
           \A f \in VisitedPlainFunctions :
               (\E n \in FreeNames(heap, f) : FatalName(f, n))
                   => aborted /\ f \notin DOMAIN functionBindings

\* the step that aborts reports nothing, and leaves the functions whose
\* visit was under way without a capture table
C16_AbortStep ==
    (aborted' /\ ~aborted) =>
        /\ errors' = errors
        /\ functionBindings' = functionBindings
        /\ PendingFunctions \cap DOMAIN functionBindings' = {}

\* after the abort this visitor changes nothing
C16_AfterAbort ==
    (aborted /\ pass' = pass) =>
        UNCHANGED <<values, ignoredProperties, globalBindings,
                    declarativeEnvironmentRecordsBindings, functionInfos,
                    functionBindings, bindings, errors, aborted>>

\* C16: a free name that resolves to a deletable declarative binding or to a
\* reference whose name is no string, and a visitValue on a value of no
\* known kind, abort the pass at once: from the abort on no value enters the
\* visited set, no table changes, no diagnostic is reported in its place,
\* and the function whose visit was under way never gets a capture table.
C16_FatalAborts == []C16_Aborts /\ [][C16_AbortStep /\ C16_AfterAbort]_vars

\* the pass was aborted at the deletable binding x of its only root, which
\* holds a value of no known kind that was never reached
C16_Witness ==
    /\ heap.name = "fatal"
    /\ generator = <<N(1)>>
    /\ Ended
    /\ aborted
    /\ FatalName(N(1), "x")
    /\ heap.records[1]["x"].deletable
    /\ heap.records[1]["x"].value = N(3)
    /\ values = {N(1)}
    /\ functionBindings = EmptyMap
    /\ errors = {}

----------------------------------------------------------------------------
(* C17: the prototype object of a constructor *)

\* the keys of the own properties of obj, deleted ones included
OwnKeys(h, obj) ==
    {Val(h, obj).properties[i].key : i \in 1..Len(Val(h, obj).properties)}

\* no symbol-keyed properties, the Object prototype as prototype, extensible,
\* and constructor as only own key, holding the default constructor
DefaultShaped(h, p) ==
    /\ Val(h, p).symbolsSize = 0
    /\ Val(h, p).Prototype = intrinsics.ObjectPrototype
    /\ Val(h, p).extensible
    /\ OwnKeys(h, p) = {"constructor"}
    /\ getPropertyValue(h, p, "constructor") = Val(h, p).originalConstructor

\* the visited functions whose prototype property is classified ignorable
FunctionsWithDefaultPrototypeProperty ==
    {f \in values :
        /\ Dispatch(heap, f) = "visitValueFunction"
        /\ PropertyIndex(heap, f, "prototype") # 0
        /\ Val(heap, f).properties[PropertyIndex(heap, f, "prototype")].descriptor.defined
        /\ canIgnoreProperty(heap, f, "prototype",
               Val(heap, f).properties[PropertyIndex(heap, f, "prototype")].descriptor)}

\* C17: at the end of a pass, for every visited function whose prototype
\* property is an ignorable default, the property is in the function's
\* ignorable set and its value is not visited through the property; the
\* prototype object is handed to visitValue by the function iff it is not
\* default-shaped; and a default-shaped prototype object that is no root and
\* that no other visited value refers to is not in the visited set.
C17_ConstructorPrototype ==
    Completed =>
        \A f \in FunctionsWithDefaultPrototypeProperty :
            LET i == PropertyIndex(heap, f, "prototype")
                p == Val(heap, f).properties[i].descriptor.value
            IN /\ Ignored(f, "prototype")
               /\ ~Called(Via("value", f, "prototype", i))
               /\ Called(Via("constructorPrototype", f, "", 0)) <=> ~DefaultShaped(heap, p)
               /\ ~DefaultShaped(heap, p)
                    => CalledWith(Via("constructorPrototype", f, "", 0), p) /\ p \in values
               /\ (/\ DefaultShaped(heap, p)
                   /\ p \notin Roots(heap)
                   /\ \A v \in values \ {f} : p \notin FollowedEdges(heap, v))
                    => p \notin values

\* a constructor whose prototype object is in the default shape and is
\* referred to by nothing else: the property is ignored and the object is
\* not visited
C17_Witness ==
    /\ heap.name = "other"
    /\ Completed
    /\ N(8) \in FunctionsWithDefaultPrototypeProperty
    /\ getPropertyValue(heap, N(8), "prototype") = N(9)
    /\ DefaultShaped(heap, N(9))
    /\ \A v \in values \ {N(8)} : N(9) \notin FollowedEdges(heap, v)
    /\ Ignored(N(8), "prototype")
    /\ ~Called(Via("constructorPrototype", N(8), "", 0))
    /\ N(9) \notin values

----------------------------------------------------------------------------
(* C18: which functions get a capture table *)

\* the visited functions of class cls that visitValueFunction was run on
VisitedFunctionsOf(cls) ==
    {f \in values : Dispatch(heap, f) = "visitValueFunction" /\ Val(heap, f).cls = cls}

\* the places of visitObjectProperties from which a value hands on values
PropertySites == {"value", "get", "set", "prototype", "constructorPrototype"}

\* the places from which the value f handed a value to visitValue
SitesOf(f) == {c.via.site : c \in {d \in calls : d.via.from = f}}

\* C18: at the end of a pass that was not aborted, the capture-table map has
\* an entry for exactly the visited plain functions, and a Function Info for
\* exactly their bodies; a bound function has handed its target, its bound
\* this and each bound argument to visitValue and has no capture table; a
\* native function has handed over nothing but through its own properties
\* and has no capture table.
C18_CaptureTablesOfPlainFunctions ==
    Completed =>
        /\ DOMAIN functionBindings = VisitedPlainFunctions
        /\ DOMAIN functionInfos
               = {Val(heap, f).ECMAScriptCode : f \in VisitedPlainFunctions}
        /\ \A f \in VisitedFunctionsOf("BoundFunction") :
               /\ CalledWith(Via("boundTarget", f, "", 0), Val(heap, f).BoundTargetFunction)
               /\ CalledWith(Via("boundThis", f, "", 0), Val(heap, f).BoundThis)
               /\ \A i \in 1..Len(Val(heap, f).BoundArguments) :
                      CalledWith(Via("boundArgument", f, "", i),
                                 Val(heap, f).BoundArguments[i])
               /\ {Val(heap, f).BoundTargetFunction, Val(heap, f).BoundThis}
                      \cup Range(Val(heap, f).BoundArguments) \subseteq values
               /\ f \notin DOMAIN functionBindings
        /\ \A f \in VisitedFunctionsOf("NativeFunction") :
               /\ SitesOf(f) \subseteq PropertySites
               /\ f \notin DOMAIN functionBindings

\* a pass over two bound functions, one with a bound argument, and a plain
\* function: only the plain function has a capture table
C18_Witness ==
    /\ heap.name = "cycle"
    /\ Completed
    /\ VisitedFunctionsOf("BoundFunction") = {N(2), N(3)}
    /\ Len(Val(heap, N(2)).BoundArguments) = 1
    /\ CalledWith(Via("boundArgument", N(2), "", 1), N(4))
    /\ VisitedPlainFunctions = {N(4)}
    /\ DOMAIN functionBindings = {N(4)}

\* a pass over a native function with a property of its own: the value of
\* the property is visited, and the function has no capture table
C18_NativeWitness ==
    /\ heap.name = "other"
    /\ Completed
    /\ N(7) \in VisitedFunctionsOf("NativeFunction")
    /\ SitesOf(N(7)) = {"value"}
    /\ N(7) \notin DOMAIN functionBindings

----------------------------------------------------------------------------
(* C19: the binding records *)

\* what the free name n of f resolves to: a name of the global table, or a
\* name of a Declarative record
ResolvesTo(f, n) ==
    LET reference == ResolveBinding(heap, n, Val(heap, f).Environment)
    IN IF reference.res = "declarative"
       THEN <<"lexical", reference.base, reference.referencedName>>
       ELSE IF reference.res = "global" THEN <<"global", 0, reference.referencedName>>
       ELSE <<"global", 0, n>>

\* the entries of the capture tables
CaptureEntries ==
    UNION {{<<f, n>> : n \in DOMAIN functionBindings[f]} : f \in DOMAIN functionBindings}

\* the records of the two binding tables, as places in the store of records
TableRecords ==
    Range(globalBindings)
    \cup UNION {Range(declarativeEnvironmentRecordsBindings[r]) :
                    r \in DOMAIN declarativeEnvironmentRecordsBindings}

\* every global record is modified, and capture-table entries that resolve
\* to one binding are one record of the tables
C19_Shared ==
    /\ \A k \in DOMAIN globalBindings :
           bindings[globalBindings[k]].global /\ bindings[globalBindings[k]].modified
    /\ \A fn \in CaptureEntries :
           /\ functionBindings[fn[1]][fn[2]] \in TableRecords
           /\ \A gm \in CaptureEntries :
                  ResolvesTo(fn[1], fn[2]) = ResolvesTo(gm[1], gm[2])
                      => /\ functionBindings[fn[1]][fn[2]] = functionBindings[gm[1]][gm[2]]
                         /\ Captured(fn[1], fn[2]).modified = Captured(gm[1], gm[2]).modified

\* C19 as stated: in every state, the value of every record of the binding
\* tables, when it has one, is in the visited set; every global record is
\* modified; and the capture-table entries of different functions that
\* resolve to one binding are one shared record.
C19_RecordsVisitedAndShared ==
    /\ \A i \in TableRecords :
           bindings[i].value # Undefined => bindings[i].value \in values
    /\ C19_Shared

\* the record made last, whose value is the argument of the visitValue call
\* that its creation is followed by and that has not run yet
ValueCallPending(i) ==
    /\ i = Len(bindings)
    /\ Running("visitValue")
    /\ Top.via.site \in {"globalBinding", "lexicalBinding"}
    /\ Top.val = bindings[i].value

\* C19, amended: a record is entered in its table before its value is
\* visited, so in every state the value of every record, when it has one, is
\* in the visited set except for the record just created, whose value is
\* the argument of the call of visitValue about to run; once a pass has
\* ended every value is in the set.  Every global record is modified, and
\* capture-table entries that resolve to one binding are one shared record.
C19_RecordsVisitedOnceCalled ==
    /\ \A i \in TableRecords :
           bindings[i].value # Undefined =>
               bindings[i].value \in values \/ ValueCallPending(i)
    /\ Ended => \A i \in TableRecords :
                    bindings[i].value # Undefined => bindings[i].value \in values
    /\ C19_Shared

\* two closures over one body: their entries for the lexical x and for the
\* global y are the same two records, y holds a visited value, and x is
\* modified in both tables
C19_Witness ==
    /\ heap.name = "closure"
    /\ Ended
    /\ {N(1), N(2)} \subseteq DOMAIN functionBindings
    /\ Val(heap, N(1)).ECMAScriptCode = Val(heap, N(2)).ECMAScriptCode
    /\ ResolvesTo(N(1), "y") = ResolvesTo(N(2), "y")
    /\ functionBindings[N(1)]["y"] = functionBindings[N(2)]["y"]
    /\ Captured(N(1), "y").value = N(4)
    /\ N(4) \in values
    /\ functionBindings[N(1)]["x"] = functionBindings[N(2)]["x"]
    /\ Captured(N(1), "x").modified /\ Captured(N(2), "x").modified

====
